---- MODULE Spec2Model ----
(***************************************************************************)
(* Model of the CLI orchestration engine of nodefleet/migration-backend:   *)
(* the stake batch operations of StakeExecutor (retry controller, batch    *)
(* orchestrator) and the keyring import operations.                         *)
(*                                                                         *)
(* An error message is modelled by the set of marker substrings it         *)
(* contains, so that String.includes(x) is membership and wrapping a       *)
(* message into a longer one is set union.  Time is the number of seconds  *)
(* spent in delay(); a CLI invocation itself takes no modelled time.       *)
(***************************************************************************)
EXTENDS Integers, Sequences, FiniteSets, TLC

\* ------------------------------------------------------------------ bounds
\* Largest number of work units (stake files) of a batch.
MaxUnits == 3
\* Largest number of keyring import calls made one after the other.
MaxCalls == 2

\* ------------------------------------------------------- program constants
\* faulty variant: one attempt more than the program allows
maxRetriesOneMore == 3 + 1

\* maxRetries: the literal 3 passed by the batches / const maxRetries = 3.
maxRetries == 3
\* 30 * attempt seconds of backoff before a retry.
retryDelayBase == 30
\* delay(30) between two transactions of a batch.
interTransactionDelay == 30

VARIABLES
    op,          \* which operation runs: "session", "imported", "mnemonic", "node"
    numUnits,    \* K: number of .yaml stake files / stakeFiles.length
    sessionDir,  \* the session on disk: "missing", "noStakeDir" (no stake_files/), "ok"
    ownerImport, \* outcome of the owner key import of the imported-key batch
    seqText,     \* the markers of the sequence-mismatch text the CLI prints in this run
    pc,          \* position of the operation (its pending await)
    cur,         \* index of the unit being processed (1-based), 0 before the loop
    attempt,     \* attempt / attempts: the retry loop's counter
    lastError,   \* lastError of executeStakeTransactionWithRetry
    sleepFor,    \* seconds of the pending delay()
    clock,       \* seconds slept so far
    delays,      \* delay() calls that are over: [retry, gap]
    results,     \* results: [totalFiles, successful, failed, transactions]
    topError,    \* message of the error the operation threw, {} if none
    status,      \* per-unit position: pending / attempting / retry-wait / succeeded / failed
    txLog,       \* stake-supplier invocations issued so far: [unit, attempt, at, kind]
    keyring,     \* external keyring of one home: backend -> name -> identity held
    kpc,         \* position of the keyring import operation (its pending await)
    kreq,        \* the import call being served: [fn, name, cred, backend, had]
    kst,         \* its progress: [backend, deleted, fault]
    kresult,     \* what the import call returned or threw: [status, error, backend]
    ktemp,       \* temp key files on disk: [call, key] (one file name per call)
    kcalls,      \* number of import calls made so far
    tcalls,      \* concurrent calls that keep their input in a temp file: caller -> call
    tfiles,      \* the files of those calls in the temp directory: [name, content]
    spawned,     \* child processes spawned by the keyring / migration call(s) served:
                 \* [cmd, argv, stdin, file] with the secrets each channel carries
    logged,      \* secrets written to the log: [secret, part]
    mnemonic,    \* the mnemonic argument of the mnemonic batch / createNodeAndStake
    signing,     \* signer inputs of the batch and the --from resolved from them
    mring,       \* names present in the test keyring of the migration home
    msess,       \* migration sessions: session id -> its input and progress
    minput,      \* the Morse credentials of a migration and its input file
    temp,        \* entries of the temp directory: [name, age]
    sessions,    \* stake sessions on disk: session id -> what its directory holds
    server,      \* the server process: [phase, files, removed] of its startup cleanup
    creating,    \* the executeStake call in progress: [pc, sid, info, i]
    reader       \* the last read operation on a session, its progress and answer

vars == <<op, numUnits, sessionDir, ownerImport, seqText, pc, cur, attempt, lastError, sleepFor,
          clock, delays, results, topError, status, txLog, keyring, kpc, kreq, kst, kresult, ktemp, kcalls,
          tcalls, tfiles,
          spawned, logged, mnemonic, signing, mring, msess, minput, temp, sessions, server,
          creating, reader>>

batchVars == <<op, numUnits, sessionDir, ownerImport, seqText, pc, cur, attempt, lastError,
               sleepFor, clock, delays, results, topError, status, txLog, mnemonic,
               signing>>

keyringVars == <<keyring, kpc, kreq, kst, kresult, ktemp, kcalls, tcalls, tfiles>>

migrationVars == <<mring, msess, minput>>

storeVars == <<temp, sessions, server, creating, reader>>

nonStoreVars == <<batchVars, keyringVars, migrationVars, spawned, logged>>

\* ---------------------------------------------------------------- messages
SeqMismatchFull == {"account sequence mismatch", "expected", "got", "sequence"}
SeqMismatchAlt  == {"expected", "got", "sequence"}
SeqTexts == {SeqMismatchFull, SeqMismatchAlt}

NoError == [code |-> "none", stderr |-> {}, message |-> {}]

\* Outcomes of one child process run by promisified exec().
FailKinds == {"seq", "generic", "timeout", "spawn"}
Outcomes  == {"ok"} \cup FailKinds

\* The error promisified exec() rejects with, by failure kind.
ExecError(kind, seq) ==
    CASE kind = "seq"     -> [code |-> "exit", stderr |-> seq,
                              message |-> {"Command failed"} \cup seq]
      [] kind = "generic" -> [code |-> "exit", stderr |-> {"unknown flag"},
                              message |-> {"Command failed", "unknown flag"}]
      [] kind = "timeout" -> [code |-> "null", stderr |-> {},
                              message |-> {"Command failed"}]
      [] kind = "spawn"   -> [code |-> "ENOENT", stderr |-> {},
                              message |-> {"spawn ENOENT"}]

\* new Error(prefix + inner.message): a fresh Error has no code and no stderr.
WrapError(prefix, inner) ==
    [code |-> "none", stderr |-> {}, message |-> {prefix} \cup inner.message]

\* faulty variant: every error is taken for a sequence mismatch
isSequenceMismatchErrorAlways(error) == TRUE

isSequenceMismatchError(error) ==
    \/ "account sequence mismatch" \in error.message
    \/ /\ "expected" \in error.message
       /\ "got" \in error.message
       /\ "sequence" \in error.message

\* ------------------------------------------------------- retry controller
\* for (attempt = 1; attempt <= maxRetries; ...) / while (attempts < maxRetries)
\* { attempts++ ... }: may attempt number n be started?
LoopCondition(n) == n <= maxRetries

\* if (attempt < maxRetries): is a retry left after failed attempt n?
RetryLeft(n) == n < maxRetries

\* const retryDelay = 30 * attempt
\* faulty variant: the same delay before every retry
retryDelayFlat(n) == retryDelayBase

retryDelay(n) == retryDelayBase * n

\* executeStakeTransaction's catch: the CLI error re-thrown as a fresh Error.
StakeTransactionError(kind, seq) ==
    WrapError("Failed staking with config", ExecError(kind, seq))

\* throw new Error(`Transaction failed after ... Last error: ${lastError.message}`)
\* faulty variant: the last error is dropped from the message
RetriesExhaustedErrorBare(last) ==
    [code |-> "none", stderr |-> {}, message |-> {"Transaction failed after attempts"}]

RetriesExhaustedError(last) == WrapError("Transaction failed after attempts", last)

\* The catch block of executeStakeWithMnemonic / createNodeAndStake.
MnemonicCatch(prefix, error) ==
    IF error.code = "ETIMEDOUT"
    THEN [code |-> "none", stderr |-> {}, message |-> {"CLI command timed out"}]
    ELSE IF error.code = "ENOENT"
    THEN [code |-> "none", stderr |-> {}, message |-> {"Pocketd command not found"}]
    ELSE IF error.stderr # {}
    THEN [code |-> "none", stderr |-> {},
          message |-> {prefix, "CLI command failed"} \cup error.stderr]
    ELSE [code |-> "none", stderr |-> {},
          message |-> {prefix, "CLI command failed"} \cup error.message]

\* reject(new Error(`Failed to import wallet with any keyring backend ...`))
WalletImportError ==
    [code |-> "none", stderr |-> {},
     message |-> {"Failed to import wallet with any keyring backend"}]

\* createWallet's catch: new Error(`Failed to create wallet ...`)
CreateWalletError ==
    [code |-> "none", stderr |-> {}, message |-> {"Failed to create wallet"}]

UnitPrefix ==
    IF op = "node" THEN "Failed to create node and stake"
    ELSE "Failed to execute stake transaction with mnemonic"

\* ------------------------------------------------------ batch orchestrator
Ops == {"session", "imported", "mnemonic", "node"}
\* the batches that call executeStakeTransactionWithRetry; the other operations
\* carry their own retry loop
RetryFunctionOps == {"session", "imported"}
BatchOps == {"session", "imported", "mnemonic"}

\* no delay() was awaited yet
NoDelays == [retry |-> 0, gap |-> 0]

EmptyResults == [totalFiles |-> 0, successful |-> 0, failed |-> 0, transactions |-> <<>>]

\* return { ...result, attempts: attempt }
StakeResult(u, n) == [success |-> TRUE, unit |-> u, attempts |-> n]

\* the object executeStakeWithMnemonic returns (it has no attempts field)
MnemonicResult(u) == [success |-> TRUE, unit |-> u, method |-> "mnemonic-recovery"]

\* results.transactions.push({ success: false, ..., error: error.message })
\* faulty variant: the failure is recorded without its text
FailedEntryNoDetail(u, error) == [success |-> FALSE, unit |-> u, error |-> {}]

FailedEntry(u, error) == [success |-> FALSE, unit |-> u, error |-> error.message]

PushSuccess(res, entry) ==
    [res EXCEPT !.transactions = Append(@, entry), !.successful = @ + 1]

\* faulty variant: the entry is pushed and results.failed++ is missing
PushFailureUncounted(res, entry) ==
    [res EXCEPT !.transactions = Append(@, entry)]

PushFailure(res, entry) ==
    [res EXCEPT !.transactions = Append(@, entry), !.failed = @ + 1]

\* null: what a parameter that was not given, or a field that was not read, holds
Null == "null"

\* the name given to --from: ownerKeyName || ownerAddress in executeStakeTransactions,
\* ownerKeyName / keyName (default 'owner') in the other operations
signingKeyName ==
    IF op = "session"
    THEN IF signing.ownerKeyName # Null THEN signing.ownerKeyName ELSE signing.ownerAddress
    ELSE signing.ownerKeyName

Invoke(log, u, n, now) ==
    Append(log, [unit |-> u, attempt |-> n, at |-> now, kind |-> "inflight",
                 from |-> signingKeyName])

\* console.log of the first 50 characters of a mnemonic
MnemonicPreview(m) == [secret |-> m.id, part |-> "first 50 characters"]

\* console.log(`Node mnemonic: ${nodeWalletResult.mnemonic}`)
NodeMnemonicLogged == [secret |-> "nodeMnemonic", part |-> "whole"]

MarkLast(log, kind) == [log EXCEPT ![Len(log)].kind = kind]

\* the loop's step to the following stake file
\* faulty variant: the loop does not advance
NextIndexSame(u) == u

NextIndex(u) == u + 1

\* if (!sessionExists) throw ... ; if (yamlFiles.length === 0) throw ...
SessionMissing == sessionDir = "missing"

\* fs.readdir(stakeFilesDir) rejects when the directory is not there
StakeDirMissing == sessionDir = "noStakeDir"

\* faulty variant: the empty-session check is missing
NoStakeFilesNever(n) == FALSE

NoStakeFiles(n) == n = 0

\* faulty variant: the delay follows the last unit too
NotLastUnitAlways(u) == TRUE

\* if (currentIndex < yamlFiles.length - 1) / if (i < stakeFiles.length - 1)
NotLastUnit(u) == u < numUnits

\* Enter the loop body for unit u (or leave the loop when no unit is left), with
\* st, log and lg the unit states, the invocation log and the secrets logged after
\* the previous unit.
StartUnit(u, st, log, now, lg) ==
    IF u > numUnits
    THEN /\ pc' = "returned"
         /\ cur' = cur
         /\ attempt' = 0
         /\ status' = st
         /\ txLog' = log
         /\ logged' = lg
    ELSE IF op \in RetryFunctionOps
    THEN /\ pc' = "tx"
         /\ cur' = u
         /\ attempt' = 1
         /\ status' = [st EXCEPT ![u] = "attempting"]
         /\ txLog' = Invoke(log, u, 1, now)
         /\ logged' = lg
    ELSE /\ pc' = "import"
         /\ cur' = u
         /\ attempt' = 0
         /\ status' = st
         /\ txLog' = log
         \* executeStakeWithMnemonic logs `mnemonic preview` on entry
         /\ logged' = IF op = "mnemonic" THEN lg \cup {MnemonicPreview(mnemonic)} ELSE lg

Throw(error) ==
    /\ pc' = "threw"
    /\ topError' = error.message
    /\ UNCHANGED <<cur, attempt, lastError, sleepFor, clock, delays, results, status, txLog, logged>>

\* The operation is called: precondition checks up to its first await of a unit.
BatchCalled ==
    /\ UNCHANGED <<op, numUnits, sessionDir, ownerImport, seqText, mnemonic, signing>>
    /\ UNCHANGED <<keyringVars, migrationVars, storeVars, spawned>>
    /\ CASE op \in {"session", "imported"} ->
              IF SessionMissing
              THEN Throw([message |-> {"Session not found"}])
              ELSE IF StakeDirMissing
              THEN Throw([message |-> {"ENOENT: no such file or directory, scandir"}])
              ELSE IF NoStakeFiles(numUnits)
              THEN Throw([message |-> {"No stake files found in session"}])
              ELSE IF op = "imported" /\ ownerImport = "fail"
              THEN Throw([message |-> {"Failed to import key"}])
              ELSE /\ results' = [EmptyResults EXCEPT !.totalFiles = numUnits]
                   /\ StartUnit(1, status, txLog, clock, logged)
                   /\ UNCHANGED <<lastError, sleepFor, clock, delays, topError>>
         [] op = "mnemonic" ->
              /\ results' = [EmptyResults EXCEPT !.totalFiles = numUnits]
              /\ StartUnit(1, status, txLog, clock, logged)
              /\ UNCHANGED <<lastError, sleepFor, clock, delays, topError>>
         [] op = "node" ->
              \E created \in BOOLEAN :
                 IF created
                 THEN /\ StartUnit(1, status, txLog, clock, logged \cup {NodeMnemonicLogged})
                      /\ UNCHANGED <<lastError, sleepFor, clock, delays, results, topError>>
                 ELSE /\ Throw(MnemonicCatch(UnitPrefix, CreateWalletError))
                      \* status is left pending: no unit was entered

StartBatch ==
    /\ pc = "idle"
    /\ BatchCalled

\* The unit failed with `thrown` before control is back in the caller.
UnitFails(thrown, log, lg) ==
    IF op = "node"
    THEN /\ pc' = "threw"
         /\ topError' = thrown.message
         /\ status' = [status EXCEPT ![cur] = "failed"]
         /\ txLog' = log
         /\ logged' = lg
         /\ UNCHANGED <<cur, attempt, results>>
    ELSE /\ results' = PushFailure(results, FailedEntry(cur, thrown))
         /\ StartUnit(NextIndex(cur), [status EXCEPT ![cur] = "failed"], log, clock, lg)
         /\ UNCHANGED topError

\* The unit's transaction succeeded with `entry` as its result.
UnitSucceeds(entry, log) ==
    /\ status' = [status EXCEPT ![cur] = "succeeded"]
    /\ txLog' = log
    /\ UNCHANGED <<cur, topError, logged>>
    /\ IF op = "node"
       THEN /\ pc' = "returned"
            /\ UNCHANGED <<attempt, results, sleepFor>>
       ELSE /\ results' = PushSuccess(results, entry)
            /\ attempt' = 0
            /\ IF NotLastUnit(cur)
               THEN /\ pc' = "gap"
                    /\ sleepFor' = interTransactionDelay
               ELSE /\ pc' = "returned"
                    /\ UNCHANGED sleepFor

\* The failed attempt is followed by a backoff delay.
Backoff(error, log) ==
    /\ pc' = "backoff"
    /\ lastError' = error
    /\ sleepFor' = retryDelay(attempt)
    /\ status' = [status EXCEPT ![cur] = "retry-wait"]
    /\ txLog' = log
    /\ UNCHANGED <<cur, attempt, results, topError, logged>>

\* The awaited stake-supplier process of attempt `attempt` of unit `cur` ends.
TxReturns ==
    /\ pc = "tx"
    /\ UNCHANGED <<op, numUnits, sessionDir, ownerImport, seqText, mnemonic, signing, clock, delays>>
    /\ UNCHANGED <<keyringVars, migrationVars, storeVars, spawned>>
    /\ \E outcome \in Outcomes :
         LET log == MarkLast(txLog, outcome) IN
         IF op \in RetryFunctionOps
         THEN \* executeStakeTransactionWithRetry and the batch loop around it
              IF outcome = "ok"
              THEN /\ UnitSucceeds(StakeResult(cur, attempt), log)
                   /\ lastError' = NoError
              ELSE LET error == StakeTransactionError(outcome, seqText) IN
                   IF isSequenceMismatchError(error) /\ RetryLeft(attempt)
                   THEN Backoff(error, log)
                   ELSE /\ UnitFails(RetriesExhaustedError(error), log, logged)
                        /\ lastError' = NoError
                        /\ UNCHANGED sleepFor
         ELSE \* the inline loop of executeStakeWithMnemonic / createNodeAndStake
              IF outcome = "ok"
              THEN /\ UnitSucceeds(MnemonicResult(cur), log)
                   /\ UNCHANGED lastError
              ELSE LET error == ExecError(outcome, seqText) IN
                   IF isSequenceMismatchError(error) /\ RetryLeft(attempt)
                   THEN Backoff(error, log)
                   ELSE /\ UnitFails(MnemonicCatch(UnitPrefix, error), log, logged)
                        /\ lastError' = NoError
                        /\ UNCHANGED sleepFor

\* executeStakeWithMnemonic / createNodeAndStake after `await importWalletWithMnemonic`:
\* the first transaction attempt when it resolved, the catch block when it rejected
\* with `error`; lg is what the log holds by then.
AfterImport(imported, error, lg) ==
    IF imported
    THEN /\ pc' = "tx"
         /\ attempt' = 1
         /\ status' = [status EXCEPT ![cur] = "attempting"]
         /\ txLog' = Invoke(txLog, cur, 1, clock)
         /\ logged' = lg
         /\ UNCHANGED <<cur, lastError, results, topError>>
    ELSE /\ UnitFails(MnemonicCatch(UnitPrefix, error), txLog, lg)
         /\ UNCHANGED lastError

\* importWalletWithMnemonic of the unit resolves or rejects.
ImportReturns ==
    /\ pc = "import"
    /\ UNCHANGED <<op, numUnits, sessionDir, ownerImport, seqText, mnemonic, signing, clock, delays, sleepFor>>
    /\ UNCHANGED <<keyringVars, migrationVars, storeVars, spawned>>
    /\ \E imported \in BOOLEAN :
         IF imported
         THEN AfterImport(TRUE, NoError, logged \cup {MnemonicPreview(mnemonic)})
         ELSE \* the preview is logged unless the version probe already failed
              \E probed \in BOOLEAN :
                 AfterImport(FALSE, WalletImportError,
                             IF probed THEN logged \cup {MnemonicPreview(mnemonic)}
                             ELSE logged)

\* delay(retryDelay) is over: continue with the next attempt.
BackoffElapses ==
    /\ pc = "backoff"
    /\ UNCHANGED <<op, numUnits, sessionDir, ownerImport, seqText, mnemonic, signing>>
    /\ UNCHANGED <<keyringVars, migrationVars, storeVars, spawned>>
    /\ clock' = clock + sleepFor
    /\ delays' = [delays EXCEPT !.retry = @ + 1]
    /\ sleepFor' = 0
    /\ LoopCondition(attempt + 1)
    /\ pc' = "tx"
    /\ attempt' = attempt + 1
    /\ status' = [status EXCEPT ![cur] = "attempting"]
    /\ txLog' = Invoke(txLog, cur, attempt + 1, clock + sleepFor)
    /\ UNCHANGED <<cur, lastError, results, topError, logged>>

\* delay(30) after a successful unit is over: go on with the next unit.
GapElapses ==
    /\ pc = "gap"
    /\ UNCHANGED <<op, numUnits, sessionDir, ownerImport, seqText, mnemonic, signing>>
    /\ UNCHANGED <<keyringVars, migrationVars, storeVars, spawned>>
    /\ clock' = clock + sleepFor
    /\ delays' = [delays EXCEPT !.gap = @ + 1]
    /\ sleepFor' = 0
    /\ StartUnit(NextIndex(cur), status, txLog, clock + sleepFor, logged)
    /\ UNCHANGED <<lastError, results, topError>>

\* ------------------------------------------------------------ keyring manager
\* The external binary's keyring is modelled for one home directory: per backend,
\* the identity each name holds.  A CLI call either does what the command is for
\* ("ok") or fails for an unrelated reason such as a timeout ("fault"); adding or
\* importing under a name that is present is refused with an "already exists"
\* error, which is the collision the import operations handle.
Backends == {"test", "memory"}
Names == {"owner"}
Absent == "absent"
OldIdentity == "old"

\* caller-supplied raw keys: digits is the number of characters after the optional
\* 0x prefix, hex says whether all of them are hexadecimal digits
HexKeys ==
    { [id |-> "keyA", has0x |-> FALSE, digits |-> 64, hex |-> TRUE],
      [id |-> "keyB", has0x |-> TRUE,  digits |-> 128, hex |-> TRUE],
      [id |-> "keyC", has0x |-> TRUE,  digits |-> 62, hex |-> TRUE],
      [id |-> "keyD", has0x |-> FALSE, digits |-> 64, hex |-> FALSE],
      [id |-> "keyE", has0x |-> FALSE, digits |-> 40, hex |-> TRUE],
      [id |-> "keyF", has0x |-> FALSE, digits |-> 96, hex |-> TRUE] }

\* caller-supplied phrases by their number of words; 0 words is the empty string
Mnemonics == { [id |-> "mnemonicA", words |-> 12], [id |-> "mnemonicB", words |-> 11],
               [id |-> "mnemonicC", words |-> 25], [id |-> "mnemonicD", words |-> 0] }

\* importKeyToKeyring: privateKey.length >= 64 on the key as supplied, then the hex
\* test on the key without its 0x prefix
StakeKeyValid(k) ==
    /\ k.digits + (IF k.has0x THEN 2 ELSE 0) >= 64
    /\ k.hex

\* importPrivateKeyToKeyring: /^[0-9a-fA-F]{64,128}$/ on the key without 0x
MigrationKeyValid(k) == k.hex /\ k.digits >= 64 /\ k.digits <= 128

\* importWalletWithMnemonic: wordCount < 12 || wordCount > 24 rejects
\* faulty variant: the word count is not checked
MnemonicValidAny(m) == TRUE

MnemonicValid(m) == m.words >= 12 /\ m.words <= 24

CredValid(fn, c) ==
    CASE fn = "hex" -> StakeKeyValid(c)
      [] fn = "migration" -> MigrationKeyValid(c)
      [] fn = "mnemonic" -> MnemonicValid(c)

\* the error a malformed credential is refused with
InvalidCredentialError(fn, c) ==
    CASE fn = "hex" ->
            IF c.digits + (IF c.has0x THEN 2 ELSE 0) < 64
            THEN {"Failed to import key", "Invalid private key format"}
            ELSE {"Failed to import key", "Private key must be in hex format"}
      [] fn = "migration" -> {"Key import failed", "Invalid private key format"}
      [] fn = "mnemonic" ->
            \* if (!mnemonic || typeof mnemonic !== 'string') comes first
            IF c.words = 0 THEN {"Mnemonic is required and must be a string"}
            ELSE {"Invalid mnemonic length"}

Present(kr, b, n) == kr[b][n] # Absent
Put(kr, b, n, id) == [kr EXCEPT ![b][n] = id]
Remove(kr, b, n) == [kr EXCEPT ![b][n] = Absent]

\* const backendsToTry = [keyringBackend]; if (keyringBackend !== 'memory') push('memory')
backendsToTry(b) == IF b # "memory" THEN <<b, "memory">> ELSE <<b>>

CliOutcomes == {"ok", "fault"}

\* A child process: the command, and the secrets its command line (argv), its
\* standard input and the file named on its command line carry.
Command(cmd, argv, stdin, file) ==
    [cmd |-> cmd, argv |-> argv, stdin |-> stdin, file |-> file]

\* `${pocketdPath} version`
VersionCommand == Command("version", {}, {}, {})
\* `keys list --home ... --keyring-backend ...`
KeysListCommand == Command("keys list", {}, {}, {})
\* `keys delete <name> ... --yes`
KeysDeleteCommand == Command("keys delete", {}, {}, {})
\* `keys show <name> ...`
KeysShowCommand == Command("keys show", {}, {}, {})
\* `keys import <name> "<tempKeyFile>"`: the key is in the file
KeysImportCommand(c) == Command("keys import", {}, {}, {c.id})
\* `keys import-hex <name> "<hex>"`: the key is on the command line
KeysImportHexCommand(c) == Command("keys import-hex", {c.id}, {}, {})

\* spawn(command, ['keys', 'add', keyName, '--recover', ...]) and
\* child.stdin.write(cleanMnemonic + '\n')
\* faulty variant: the phrase is passed as an argument
KeysAddRecoverCommandArgv(m) == Command("keys add --recover", {m.id}, {}, {})

KeysAddRecoverCommand(m) == Command("keys add --recover", {}, {m.id}, {})

\* fs.writeFile(tempKeyFile, cleanPrivateKey): temp_key_${Date.now()}.txt
TempKeyFile(call, c) == [call |-> call, key |-> c.id]

\* fs.remove(tempKeyFile) after the import command resolved
RemoveTempKeyFile(files, f) == files \ {f}

\* console.log(`... import-hex ${walletName} ${cleanHex.substring(0, 10)}...`)
HexKeyPreview(c) == [secret |-> c.id, part |-> "first 10 characters"]

\* console.error('Import error:', importError.message): exec's message quotes the
\* command line, and with it the key
CommandLineLogged(c) == [secret |-> c.id, part |-> "whole"]

NoRequest == [fn |-> "none"]
NoResult == [status |-> "none", error |-> {}, backend |-> "none"]

\* Calls in flight at the same time, each holding its input in a file of the temp
\* directory named after the millisecond it started in:
\*   importKeyToKeyring:        temp_key_${Date.now()}.txt, the private key
\*   executeStakeWithMnemonic:  stake_${Date.now()}.yaml, the stake file content
Callers == {"c1", "c2"}
TempFunctions == {"importKeyToKeyring", "executeStakeWithMnemonic"}
MaxMs == 2
Milliseconds == 1..MaxMs

\* path.join(config.paths.tempDir, `temp_key_${Date.now()}.txt` / `stake_${Date.now()}.yaml`)
tempFileName(fn, now) ==
    [prefix |-> IF fn = "importKeyToKeyring" THEN "temp_key_" ELSE "stake_",
     now |-> now,
     ext |-> IF fn = "importKeyToKeyring" THEN ".txt" ELSE ".yaml"]

\* what caller c writes: its own key / its own stake file
contentOf(c) == c
Missing == "missing"
NotRead == "none"

\* fs.writeFile(name, content): the file is created or replaced
writeFile(files, name, content) ==
    {f \in files : f.name # name} \cup {[name |-> name, content |-> content]}

\* fs.remove(name)
remove(files, name) == {f \in files : f.name # name}

\* the content a process opening name finds
readFile(files, name) ==
    IF \E f \in files : f.name = name
    THEN (CHOOSE f \in files : f.name = name).content
    ELSE Missing

NoTempCall == [fn |-> "none", pc |-> "idle", now |-> 0, read |-> NotRead]

KeyringIdle ==
    /\ tcalls = [c \in Callers |-> NoTempCall]
    /\ tfiles = {}
    /\ kpc = "idle"
    /\ kreq = NoRequest
    /\ kst = [backend |-> "none", deleted |-> FALSE, fault |-> FALSE]
    /\ kresult = NoResult
    /\ ktemp = {}

KDone(result) ==
    /\ kpc' = "done"
    /\ kresult' = result

KThrow(markers) == KDone([status |-> "error", error |-> markers, backend |-> "none"])

\* The child process c is spawned and awaited at position `at`.
Spawn(at, c) ==
    /\ kpc' = at
    /\ spawned' = spawned \cup {c}

\* An import operation is called with credential c for name n on backend b; it runs
\* up to its first CLI call.  spawned starts again: it holds the call's processes.
KCall(fn, n, b, c) ==
    \* importPrivateKeyToKeyring always works on --keyring-backend test
    LET target == IF fn = "migration" THEN "test" ELSE b IN
    /\ kcalls' = kcalls + 1
    /\ UNCHANGED <<keyring, logged, tcalls, tfiles>>
    /\ kreq' = [fn |-> fn, name |-> n, cred |-> c, backend |-> target,
                had |-> Present(keyring, target, n),
                valid |-> CredValid(fn, c),
                call |-> kcalls + 1, temp |-> ktemp]
    /\ kst' = [backend |-> target, deleted |-> FALSE, fault |-> FALSE]
    /\ CASE fn = "hex" ->
              IF ~StakeKeyValid(c)
              THEN /\ KThrow(InvalidCredentialError(fn, c))
                   /\ spawned' = {}
                   /\ UNCHANGED ktemp
              ELSE /\ kresult' = NoResult
                   /\ ktemp' = ktemp \cup {TempKeyFile(kcalls + 1, c)}
                   /\ kpc' = "hex-import"
                   /\ spawned' = {KeysImportCommand(c)}
         [] fn = "mnemonic" ->
              \* the version probe comes before the word count is looked at
              /\ kresult' = NoResult
              /\ kpc' = "mn-version"
              /\ spawned' = {VersionCommand}
              /\ UNCHANGED ktemp
         [] fn = "migration" ->
              IF ~MigrationKeyValid(c)
              THEN /\ KThrow(InvalidCredentialError(fn, c))
                   /\ spawned' = {}
                   /\ UNCHANGED ktemp
              ELSE /\ kresult' = NoResult
                   /\ kpc' = "mg-delete"
                   /\ spawned' = {KeysDeleteCommand}
                   /\ UNCHANGED ktemp

\* One of the three import operations is called by some caller.
KStart ==
    /\ kpc \in {"idle", "done"}
    /\ pc = "idle"
    /\ kcalls < MaxCalls
    /\ UNCHANGED <<batchVars, migrationVars, storeVars>>
    /\ \E fn \in {"hex", "mnemonic", "migration"}, n \in Names, b \in Backends :
         \E c \in (IF fn = "mnemonic" THEN Mnemonics ELSE HexKeys) :
            /\ (fn = "migration" => b = "test")
            /\ KCall(fn, n, b, c)

\* importKeyToKeyring: `keys import <name> <tempKeyFile>` ends.
\* (no listing and no deletion precede it)
HexImportReturns ==
    /\ kpc = "hex-import"
    /\ UNCHANGED <<batchVars, migrationVars, storeVars, kreq, kcalls, tcalls, tfiles, spawned, logged>>
    /\ \E outcome \in CliOutcomes \cup {"badout"} :
         IF Present(keyring, kst.backend, kreq.name)
         THEN \* the binary refuses; execAsync rejects; the catch re-throws
              /\ KThrow({"Failed to import key", "Command failed", "already exists"})
              /\ UNCHANGED <<keyring, kst, ktemp>>
         ELSE IF outcome = "fault"
         THEN /\ KThrow({"Failed to import key", "Command failed"})
              /\ kst' = [kst EXCEPT !.fault = TRUE]
              /\ UNCHANGED <<keyring, ktemp>>
         ELSE /\ keyring' = Put(keyring, kst.backend, kreq.name, kreq.cred.id)
              /\ ktemp' = RemoveTempKeyFile(ktemp, TempKeyFile(kreq.call, kreq.cred))
              /\ IF outcome = "badout"
                 THEN \* JSON.parse(stdout) throws
                      /\ KThrow({"Failed to import key", "Unexpected end of JSON input"})
                      /\ kst' = [kst EXCEPT !.fault = TRUE]
                 ELSE /\ KDone([status |-> "ok", error |-> {}, backend |-> kst.backend])
                      /\ UNCHANGED kst

\* importWalletWithMnemonic: `pocketd version` ends; then the inputs are validated
\* and the first backend's `keys list` is issued.
MnVersionReturns ==
    /\ kpc = "mn-version"
    /\ UNCHANGED <<batchVars, migrationVars, storeVars, kreq, kcalls, tcalls, tfiles, keyring, ktemp>>
    /\ \E outcome \in CliOutcomes :
         IF outcome = "fault"
         THEN \* catch (validationError)
              /\ KThrow({"Validation failed", "Command failed"})
              /\ kst' = [kst EXCEPT !.fault = TRUE]
              /\ UNCHANGED <<spawned, logged>>
         ELSE /\ logged' = logged \cup {MnemonicPreview(kreq.cred)}
              /\ IF ~MnemonicValid(kreq.cred)
                 THEN /\ KThrow(InvalidCredentialError("mnemonic", kreq.cred))
                      /\ UNCHANGED <<kst, spawned>>
                 ELSE /\ Spawn("mn-list", KeysListCommand)
                      /\ UNCHANGED <<kst, kresult>>

\* importWalletWithMnemonic: `keys list` of the backend being tried ends.
MnListReturns ==
    /\ kpc = "mn-list"
    /\ UNCHANGED <<batchVars, migrationVars, storeVars, kreq, kcalls, tcalls, tfiles, keyring, kresult, ktemp, logged>>
    /\ \E outcome \in CliOutcomes :
         IF outcome = "ok"
         THEN /\ IF Present(keyring, kst.backend, kreq.name)
                 THEN Spawn("mn-delete", KeysDeleteCommand)
                 ELSE Spawn("mn-add", KeysAddRecoverCommand(kreq.cred))
              /\ UNCHANGED kst
         ELSE \* catch (listError): logged, the import goes on
              /\ Spawn("mn-add", KeysAddRecoverCommand(kreq.cred))
              /\ kst' = [kst EXCEPT !.fault = TRUE]

\* importWalletWithMnemonic: `keys delete <name> --yes` ends.
MnDeleteReturns ==
    /\ kpc = "mn-delete"
    /\ UNCHANGED <<batchVars, migrationVars, storeVars, kreq, kcalls, tcalls, tfiles, kresult, ktemp, logged>>
    /\ Spawn("mn-add", KeysAddRecoverCommand(kreq.cred))
    /\ \E outcome \in CliOutcomes :
         IF outcome = "ok"
         THEN /\ keyring' = Remove(keyring, kst.backend, kreq.name)
              /\ kst' = [kst EXCEPT !.deleted = TRUE]
         ELSE /\ kst' = [kst EXCEPT !.fault = TRUE]
              /\ UNCHANGED keyring

\* the backend tried after b, "none" when b was the last one
NextBackend(first, b) ==
    LET bs == backendsToTry(first) IN
    IF b = bs[Len(bs)] THEN "none" ELSE bs[Len(bs)]

\* _performImport: the spawned `keys add <name> --recover` closes.
MnAddReturns ==
    /\ kpc = "mn-add"
    /\ UNCHANGED <<batchVars, migrationVars, storeVars, kreq, kcalls, tcalls, tfiles, ktemp, logged>>
    /\ \E outcome \in CliOutcomes :
         LET clash == Present(keyring, kst.backend, kreq.name)
             markers == IF clash THEN {"already exists"}
                        ELSE {"Import command failed"}
         IN
         IF ~clash /\ outcome = "ok"
         THEN /\ keyring' = Put(keyring, kst.backend, kreq.name, kreq.cred.id)
              /\ KDone([status |-> "ok", error |-> {}, backend |-> kst.backend])
              /\ UNCHANGED <<kst, spawned>>
         ELSE /\ UNCHANGED keyring
              /\ IF NextBackend(kreq.backend, kst.backend) = "none"
                 THEN /\ KThrow({"Failed to import wallet with any keyring backend"}
                                   \cup markers)
                      /\ kst' = [kst EXCEPT !.fault = @ \/ ~clash]
                      /\ UNCHANGED spawned
                 ELSE /\ Spawn("mn-list", KeysListCommand)
                      /\ kst' = [kst EXCEPT !.backend = NextBackend(kreq.backend, kst.backend),
                                            !.fault = @ \/ ~clash]
                      /\ UNCHANGED kresult

\* importPrivateKeyToKeyring: `keys delete <name> --yes` ends; its errors are ignored.
\* The import-hex command is logged with the first 10 characters of the key and issued.
MgDeleteReturns ==
    /\ kpc = "mg-delete"
    /\ UNCHANGED <<batchVars, migrationVars, storeVars, kreq, kcalls, tcalls, tfiles, kresult, ktemp>>
    /\ Spawn("mg-import", KeysImportHexCommand(kreq.cred))
    /\ logged' = logged \cup {HexKeyPreview(kreq.cred)}
    /\ \E outcome \in CliOutcomes :
         IF outcome = "ok"
         THEN /\ keyring' = Remove(keyring, kst.backend, kreq.name)
              /\ kst' = [kst EXCEPT !.deleted = Present(keyring, kst.backend, kreq.name)]
         ELSE /\ kst' = [kst EXCEPT !.fault = TRUE]
              /\ UNCHANGED keyring

\* importPrivateKeyToKeyring: `keys import-hex <name> "<hex>"` ends.
MgImportReturns ==
    /\ kpc = "mg-import"
    /\ UNCHANGED <<batchVars, migrationVars, storeVars, kreq, kcalls, tcalls, tfiles, ktemp>>
    /\ \E outcome \in CliOutcomes \cup {"timeout"} :
         IF Present(keyring, kst.backend, kreq.name)
         THEN \* stderr has "already exists": the error is logged and swallowed
              /\ Spawn("mg-verify", KeysShowCommand)
              /\ logged' = logged \cup {CommandLineLogged(kreq.cred)}
              /\ UNCHANGED <<keyring, kst, kresult>>
         ELSE IF outcome = "ok"
         THEN /\ keyring' = Put(keyring, kst.backend, kreq.name, kreq.cred.id)
              /\ Spawn("mg-verify", KeysShowCommand)
              /\ UNCHANGED <<kst, kresult, logged>>
         ELSE IF outcome = "fault"
         THEN \* importError.stderr is set and is not a duplicate: throw
              \* `Import failed: ${importError.message}`, which quotes the command line
              /\ KThrow({"Key import failed", "Import failed", "Command failed",
                         kreq.cred.id})
              /\ logged' = logged \cup {CommandLineLogged(kreq.cred)}
              /\ kst' = [kst EXCEPT !.fault = TRUE]
              /\ UNCHANGED <<keyring, spawned>>
         ELSE \* no stderr (the process was killed): taken for a duplicate
              /\ Spawn("mg-verify", KeysShowCommand)
              /\ logged' = logged \cup {CommandLineLogged(kreq.cred)}
              /\ kst' = [kst EXCEPT !.fault = TRUE]
              /\ UNCHANGED <<keyring, kresult>>

\* importPrivateKeyToKeyring: `keys show <name>` ends.
MgVerifyReturns ==
    /\ kpc = "mg-verify"
    /\ UNCHANGED <<batchVars, migrationVars, storeVars, kreq, kcalls, tcalls, tfiles, keyring, ktemp, spawned, logged>>
    /\ \E outcome \in CliOutcomes :
         IF Present(keyring, kst.backend, kreq.name) /\ outcome = "ok"
         THEN /\ KDone([status |-> "ok", error |-> {}, backend |-> kst.backend])
              /\ UNCHANGED kst
         ELSE /\ KThrow({"Key import failed", "Key could not be verified after import"})
              /\ kst' = [kst EXCEPT !.fault = @ \/ outcome = "fault"]

NextKeyring ==
    \/ KStart
    \/ HexImportReturns
    \/ MnVersionReturns
    \/ MnListReturns
    \/ MnDeleteReturns
    \/ MnAddReturns
    \/ MgDeleteReturns
    \/ MgImportReturns
    \/ MgVerifyReturns

\* no stake batch is running and no credential is in use
BatchIdle ==
    /\ numUnits = 0
    /\ sessionDir = "ok"
    /\ ownerImport = "none"
    /\ seqText = SeqMismatchFull
    /\ pc = "idle"
    /\ cur = 0
    /\ attempt = 0
    /\ lastError = NoError
    /\ sleepFor = 0
    /\ clock = 0
    /\ delays = NoDelays
    /\ results = EmptyResults
    /\ topError = {}
    /\ status = [u \in 1..numUnits |-> "pending"]
    /\ txLog = <<>>
    /\ signing = [ownerKeyName |-> Null, ownerAddress |-> Null]

\* ------------------------------------------------------- migration input file
\* The Morse credentials of a migration request and the file
\* input/migration-input-<id>.json written from them.  A string is a sequence of
\* pieces: white space, the prefix 0x, a run of n hexadecimal digits, the text of a
\* JSON object with its priv and addr fields (strings again, <<>> when absent), or
\* other text.

\* morsePrivateKeys.length of a request
MaxKeys == 2

Piece(t, n, id, priv, addr) == [t |-> t, n |-> n, id |-> id, priv |-> priv, addr |-> addr]
Space == Piece("space", 0, "none", <<>>, <<>>)
Prefix0x == Piece("0x", 0, "none", <<>>, <<>>)
HexDigits(n, id) == Piece("hex", n, id, <<>>, <<>>)
WalletJson(priv, addr) == Piece("json", 0, "none", priv, addr)
OtherText == Piece("text", 0, "none", <<>>, <<>>)

\* the credentials a client can send: private keys of 64 and 128 digits, bare or
\* with 0x and white space, a Morse address, a key one digit short, wallet JSON with
\* priv and addr, with addr only and with neither, and text that is not hexadecimal
MorseCredentials ==
    { <<HexDigits(64, "key64")>>,
      <<Space, Prefix0x, HexDigits(128, "key128"), Space>>,
      <<HexDigits(40, "address")>>,
      <<HexDigits(63, "short")>>,
      <<WalletJson(<<Prefix0x, HexDigits(64, "walletKey")>>, <<HexDigits(40, "walletAddr")>>)>>,
      <<Space, WalletJson(<<HexDigits(128, "walletKey128")>>, <<>>)>>,
      <<WalletJson(<<>>, <<HexDigits(40, "walletAddr")>>)>>,
      <<WalletJson(<<>>, <<>>)>>,
      <<OtherText>> }

\* String.prototype.trim
RECURSIVE trimStart(_)
trimStart(s) == IF s # <<>> /\ Head(s) = Space THEN trimStart(Tail(s)) ELSE s
RECURSIVE trimEnd(_)
trimEnd(s) ==
    IF s # <<>> /\ s[Len(s)] = Space THEN trimEnd(SubSeq(s, 1, Len(s) - 1)) ELSE s
trim(s) == trimEnd(trimStart(s))

\* s.startsWith('0x') ? s.substring(2) : s
startsWith0x(s) == s # <<>> /\ Head(s) = Prefix0x
strip0x(s) == IF startsWith0x(s) THEN Tail(s) ELSE s

\* s.startsWith('{'), and what JSON.parse gives for the fields priv and addr
startsWithBrace(s) == s # <<>> /\ Head(s).t = "json"
parsedPriv(s) == Head(s).priv
parsedAddr(s) == Head(s).addr

\* /^[0-9a-fA-F]{lo,hi}$/.test(s)
isHexOfLength(s, lo, hi) == Len(s) = 1 /\ s[1].t = "hex" /\ s[1].n >= lo /\ s[1].n <= hi

\* isValidMorsePrivateKey(privateKey)
isValidMorsePrivateKey(privateKey) ==
    LET trimmed == trim(privateKey)
        cleanHex == strip0x(trimmed) IN
    IF startsWithBrace(trimmed)
    THEN IF parsedPriv(trimmed) # <<>>
         THEN isHexOfLength(strip0x(parsedPriv(trimmed)), 64, 128)
         ELSE IF parsedAddr(trimmed) # <<>>
         THEN isHexOfLength(parsedAddr(trimmed), 40, 40)
         ELSE FALSE
    ELSE \/ isHexOfLength(cleanHex, 64, 64)
         \/ isHexOfLength(cleanHex, 128, 128)
         \/ isHexOfLength(cleanHex, 40, 40)

\* prepareInputFile: inputData, the array written to the input file
RECURSIVE inputData(_)
inputData(keys) ==
    IF keys = <<>> THEN <<>>
    ELSE LET key == Head(keys) IN
         (IF startsWithBrace(trim(key))
          THEN IF parsedPriv(trim(key)) # <<>>
               THEN <<strip0x(parsedPriv(trim(key)))>>
               ELSE <<>>
          ELSE <<strip0x(trim(key))>>)
         \o inputData(Tail(keys))

\* runMigrationCommand: cleanedKeys, the array written to the same file
RECURSIVE cleanedKeys(_)
cleanedKeys(keys) ==
    IF keys = <<>> THEN <<>>
    ELSE LET k == Head(keys)
             key == IF startsWithBrace(trim(k)) /\ parsedPriv(trim(k)) # <<>>
                    THEN parsedPriv(trim(k)) ELSE k IN
         <<strip0x(trim(key))>> \o cleanedKeys(Tail(keys))

\* no migration request
NoInput == [keys |-> <<>>, pc |-> "idle", written |-> FALSE, file |-> <<>>]

\* no migration session was started
MigrationIdle ==
    /\ mring = {}
    /\ msess = <<>>
    /\ minput = NoInput

\* ---------------------------------------------------------------- session store
\* The stake sessions on disk (data/stake/<sessionId>/...), the temp directory and
\* the operations that write and read them: the startup cleanup of the server,
\* executeStake, getStakeSessionStatus, the session batches as far as they read the
\* session (the retry loop of a unit is the one of the batch part above) and the
\* mnemonics download.  A read operation takes its snapshot of the session in one
\* step; executeStake advances one await at a time, so a read can fall between two
\* of its writes.

\* numberOfNodes of an executeStake request (Joi: integer, 1..100)
MaxNodes == 3

\* config.migration.tempFileRetention: parseInt(process.env.TEMP_FILE_RETENTION) ||
\* 3600000, in milliseconds
tempFileRetention == 3600000

\* faulty variant: an entry as old as the retention period is removed too
ExpiredAtRetention(age) == age >= tempFileRetention

\* if (now - stats.mtime.getTime() > config.migration.tempFileRetention)
Expired(age) == age > tempFileRetention

\* entries of the temp directory and their age at startup (now - mtime)
TempNames == {"temp_key_1.txt", "stake_2.yaml"}
Ages == {tempFileRetention - 1, tempFileRetention, tempFileRetention + 1}

\* session ids: sA names the session of an earlier run, if there is one; sB is what
\* uuidv4() returns in this run
SessionIds == {"sA", "sB"}

\* const sessionId = uuidv4()
NewSessionIds == {"sB"}

\* ownerAddress of a request (Joi: /^(pokt|poktval)[0-9a-zA-Z]{39,43}$/)
OwnerAddresses == {"pokt1ownerA", "pokt1ownerB"}

\* new Date().toISOString()
Timestamps == {"2025-01-01T00:00:00.000Z", "2025-01-02T00:00:00.000Z"}

\* const walletName = `node_${i}`
walletName(i) == <<"node_", ToString(i)>>

\* const stakeFileName = `stake_${walletName}.yaml`
stakeFileName(w) == <<"stake_">> \o w \o <<".yaml">>

\* path.join(config.paths.dataDir, 'stake', sessionId)
sessionDirOf(sid) == <<"data", "stake", sid>>

\* path.join(sessionWalletsDir, walletName) / path.join(walletsDir, operatorKeyName)
walletHomePath(sid, w) == sessionDirOf(sid) \o <<"wallets", w>>

\* path.join(sessionStakeDir, stakeFileName) / path.join(stakeFilesDir, yamlFile)
stakeFilePath(sid, f) == sessionDirOf(sid) \o <<"stake_files", f>>

\* String.prototype.replace(pattern, '') with a string pattern: the first occurrence
\* is removed
RECURSIVE replace(_, _)
replace(s, t) ==
    IF s = <<>> THEN <<>>
    ELSE IF Head(s) = t THEN Tail(s)
    ELSE <<Head(s)>> \o replace(Tail(s), t)

\* faulty variant: the '.yaml' suffix stays
operatorKeyNamePrefixOnly(yamlFile) == replace(yamlFile, "stake_")

\* yamlFile.replace('stake_', '').replace('.yaml', '')
operatorKeyName(yamlFile) == replace(replace(yamlFile, "stake_"), ".yaml")

\* file.endsWith('.yaml')
endsWithYaml(f) == f # <<>> /\ f[Len(f)] = ".yaml"

\* JSON.stringify of a string and of a number, JSON.parse of them
JsonString(s) == <<"\"", s, "\"">>
JsonNumber(n) == <<ToString(n)>>
ParseString(j) == j[2]
ParseNumber(j) == CHOOSE n \in 0..(MaxNodes + 1) : ToString(n) = j[1]

\* const sessionInfo = { sessionId, ownerAddress, numberOfNodes, createdAt }
SessionInfo(sid, owner, n, at) ==
    [sessionId |-> sid, ownerAddress |-> owner, numberOfNodes |-> n, createdAt |-> at]

NoInfo == SessionInfo("none", "none", 0, "none")

\* fs.writeJson(.../session_info.json, sessionInfo): the text of the file
writeJson(info) ==
    [sessionId |-> JsonString(info.sessionId),
     ownerAddress |-> JsonString(info.ownerAddress),
     numberOfNodes |-> JsonNumber(info.numberOfNodes),
     createdAt |-> JsonString(info.createdAt)]

\* fs.readJson(sessionInfoPath)
readJson(text) ==
    [sessionId |-> ParseString(text.sessionId),
     ownerAddress |-> ParseString(text.ownerAddress),
     numberOfNodes |-> ParseNumber(text.numberOfNodes),
     createdAt |-> ParseString(text.createdAt)]

\* faulty variant: another field of the descriptor is taken for the owner
ownerAddressOfSessionId(info) == info.sessionId

\* ownerAddress = sessionInfo.ownerAddress
ownerAddressOf(info) == info.ownerAddress

\* what executeStake recorded for node i: results.wallets[i - 1]
Unit(sid, i) ==
    [nodeNumber |-> i, walletName |-> walletName(i),
     homePath |-> walletHomePath(sid, walletName(i)),
     fileName |-> stakeFileName(walletName(i)),
     stakeFile |-> stakeFilePath(sid, stakeFileName(walletName(i)))]

\* a session directory: which of its parts exist, the text of session_info.json
\* (hasInfo), the wallet homes and stake files by node number, wallet_mnemonics.json.
\* created is history: the sessionInfo object executeStake built
NoSessionDir ==
    [exists |-> FALSE, walletsDir |-> FALSE, stakeDir |-> FALSE, hasInfo |-> FALSE,
     info |-> writeJson(NoInfo), wallets |-> {}, stakeFiles |-> {},
     mnemonics |-> FALSE, entries |-> {}, created |-> NoInfo]

\* a session a previous run of the server completed; one created before mnemonics
\* were stored has no wallet_mnemonics.json
CompleteSession(info, withMnemonics) ==
    [exists |-> TRUE, walletsDir |-> TRUE, stakeDir |-> TRUE, hasInfo |-> TRUE,
     info |-> writeJson(info), wallets |-> 1..info.numberOfNodes,
     stakeFiles |-> 1..info.numberOfNodes, mnemonics |-> withMnemonics,
     entries |-> IF withMnemonics THEN 1..info.numberOfNodes ELSE {},
     created |-> info]

\* the entries fs.readdir(stakeFilesDir) returns: the order of a directory
\* listing is not specified, every order can come back
RECURSIVE Orders(_)
Orders(S) ==
    IF S = {} THEN {<<>>}
    ELSE UNION { { <<x>> \o o : o \in Orders(S \ {x}) } : x \in S }

readdir(nodes) ==
    { [i \in 1..Len(o) |-> stakeFileName(walletName(o[i]))] : o \in Orders(nodes) }

\* stakeFiles.filter(file => file.endsWith('.yaml'))
yamlFiles(stakeFiles) == SelectSeq(stakeFiles, endsWithYaml)

\* the network of a request body: absent, or a value sent by the client
Undefined == "undefined"
RequestNetworks == {Undefined, "main", "testnet", "beta", "mainnet", ""}

\* const { network = 'main', ... } = req.body
networkOf(body) == IF body = Undefined THEN "main" ELSE body

\* ['main', 'testnet', 'beta']
StakeNetworks == {"main", "testnet", "beta"}

\* if (network && !['main', 'testnet', 'beta'].includes(network)) return 400
\* the empty string is falsy and is not checked
networkRejected(n) == n # "" /\ n \notin StakeNetworks

ReadOps == {"status", "session", "imported", "download"}

NoReader ==
    [op |-> "none", sid |-> "none", pc |-> "idle", network |-> "none",
     files |-> <<>>, result |-> "none", count |-> 0, owner |-> Null,
     info |-> NoInfo, txs |-> <<>>, status |-> "none", walletCount |-> 0]

NoCreation == [pc |-> "idle", sid |-> "none", info |-> NoInfo, i |-> 0]

\* nothing of the store is in use
StoreIdle ==
    /\ temp = {}
    /\ sessions = [sid \in SessionIds |-> NoSessionDir]
    /\ server = [phase |-> "serving", files |-> {}, removed |-> {}]
    /\ creating = NoCreation
    /\ reader = NoReader

\* startServer: cleanupTempFiles lists the temp directory.  A failure is logged and
\* the server starts.
CleanupStarts ==
    /\ server.phase = "startup"
    /\ UNCHANGED <<nonStoreVars, temp, sessions, creating, reader>>
    /\ \E outcome \in CliOutcomes :
         server' = IF outcome = "ok"
                   THEN [server EXCEPT !.phase = "cleanup",
                                       !.files = {e.name : e \in temp}]
                   ELSE [server EXCEPT !.phase = "serving"]

\* cleanupTempFiles: the next listed entry is inspected (fs.stat) and removed when
\* it is older than the retention period.  A failing stat ends the cleanup.
CleanupVisits ==
    /\ server.phase = "cleanup"
    /\ UNCHANGED <<nonStoreVars, sessions, creating, reader>>
    /\ IF server.files = {}
       THEN /\ server' = [server EXCEPT !.phase = "serving"]
            /\ temp' = temp
       ELSE \E e \in temp, outcome \in CliOutcomes :
              /\ e.name \in server.files
              /\ IF outcome = "fault"
                 THEN /\ server' = [server EXCEPT !.phase = "serving", !.files = {}]
                      /\ temp' = temp
                 ELSE /\ temp' = IF Expired(e.age) THEN temp \ {e} ELSE temp
                      /\ server' = [server EXCEPT
                            !.files = server.files \ {e.name},
                            !.removed = IF Expired(e.age)
                                        THEN server.removed \cup {e}
                                        ELSE server.removed]

\* executeStake is called with a validated request: the session id is new and
\* fs.ensureDir(sessionWalletsDir) creates the session directory and wallets/.
ExecuteStakeCalled ==
    /\ server.phase = "serving"
    /\ creating.pc \in {"idle", "returned", "threw"}
    /\ UNCHANGED <<nonStoreVars, temp, server, reader>>
    /\ \E sid \in NewSessionIds, owner \in OwnerAddresses, n \in 1..MaxNodes,
          at \in Timestamps :
         /\ ~sessions[sid].exists
         /\ sessions' = [sessions EXCEPT ![sid] =
               [NoSessionDir EXCEPT !.exists = TRUE, !.walletsDir = TRUE]]
         /\ creating' = [pc |-> "stakeDir", sid |-> sid,
                         info |-> SessionInfo(sid, owner, n, at), i |-> 0]

\* executeStake: fs.ensureDir(sessionStakeDir)
StakeDirEnsured ==
    /\ creating.pc = "stakeDir"
    /\ UNCHANGED <<nonStoreVars, temp, server, reader>>
    /\ sessions' = [sessions EXCEPT ![creating.sid].stakeDir = TRUE]
    /\ creating' = [creating EXCEPT !.pc = "info"]

\* executeStake: fs.writeJson(session_info.json, sessionInfo)
SessionInfoWritten ==
    /\ creating.pc = "info"
    /\ UNCHANGED <<nonStoreVars, temp, server, reader>>
    /\ sessions' = [sessions EXCEPT ![creating.sid] =
          [@ EXCEPT !.hasInfo = TRUE, !.info = writeJson(creating.info),
                    !.created = creating.info]]
    /\ creating' = [creating EXCEPT !.pc = "unit", !.i = 1]

\* executeStake: node i gets its wallet home (createWallet, exportPrivateKey) and
\* its stake file (generateStakeFile); a failure throws and leaves the session as
\* it is, with the wallet home of node i when createWallet got past its
\* fs.ensureDir(homePath).  After node numberOfNodes the mnemonics are to be stored.
UnitCreated ==
    /\ creating.pc = "unit"
    /\ UNCHANGED <<nonStoreVars, temp, server, reader>>
    /\ \E outcome \in CliOutcomes, homeMade \in BOOLEAN :
         IF outcome = "fault"
         THEN /\ creating' = [creating EXCEPT !.pc = "threw"]
              /\ sessions' = [sessions EXCEPT ![creating.sid].wallets =
                                 IF homeMade THEN @ \cup {creating.i} ELSE @]
         ELSE /\ sessions' = [sessions EXCEPT ![creating.sid] =
                    [@ EXCEPT !.wallets = @ \cup {creating.i},
                              !.stakeFiles = @ \cup {creating.i}]]
              /\ creating' = IF creating.i = creating.info.numberOfNodes
                             THEN [creating EXCEPT !.pc = "mnemonics"]
                             ELSE [creating EXCEPT !.i = creating.i + 1]

\* executeStake: storeWalletMnemonics writes wallet_mnemonics.json and the session
\* id is returned.
MnemonicsStored ==
    /\ creating.pc = "mnemonics"
    /\ UNCHANGED <<nonStoreVars, temp, server, reader>>
    /\ sessions' = [sessions EXCEPT ![creating.sid] =
          [@ EXCEPT !.mnemonics = TRUE, !.entries = 1..creating.i]]
    /\ creating' = [creating EXCEPT !.pc = "returned"]

\* faulty variant: a session without stake_files/ is reported as an error
StatusReadNeedsStakeDir(sid) ==
    LET d == sessions[sid] IN
    IF ~d.exists
    THEN [NoReader EXCEPT !.op = "status", !.sid = sid, !.pc = "done",
                          !.result = "not-found"]
    ELSE IF ~d.stakeDir
    THEN [NoReader EXCEPT !.op = "status", !.sid = sid, !.pc = "done",
                          !.result = "error"]
    ELSE [NoReader EXCEPT !.op = "status", !.sid = sid, !.pc = "done",
                          !.result = "ok", !.count = Cardinality(d.stakeFiles)]

\* getStakeSessionStatus(sessionId)
StatusRead(sid) ==
    LET d == sessions[sid] IN
    IF ~d.exists
    THEN [NoReader EXCEPT !.op = "status", !.sid = sid, !.pc = "done",
                          !.result = "not-found"]
    ELSE [NoReader EXCEPT !.op = "status", !.sid = sid, !.pc = "done",
                          !.result = "ok", !.status = "completed",
                          !.walletCount = IF d.walletsDir THEN Cardinality(d.wallets)
                                          ELSE 0,
                          !.count = IF d.stakeDir THEN Cardinality(d.stakeFiles) ELSE 0]

\* GET mnemonics of a session: wallet_mnemonics.json when it is there, else the
\* legacy answer built from session_info.json
DownloadRead(sid) ==
    LET d == sessions[sid] IN
    IF ~d.exists
    THEN [NoReader EXCEPT !.op = "download", !.sid = sid, !.pc = "done",
                          !.result = "not-found"]
    ELSE IF d.mnemonics
    THEN [NoReader EXCEPT !.op = "download", !.sid = sid, !.pc = "done",
                          !.result = "mnemonics"]
    ELSE IF ~d.hasInfo
    THEN [NoReader EXCEPT !.op = "download", !.sid = sid, !.pc = "done",
                          !.result = "error"]
    ELSE [NoReader EXCEPT !.op = "download", !.sid = sid, !.pc = "done",
                          !.result = "ok", !.info = readJson(d.info),
                          !.owner = ownerAddressOf(readJson(d.info))]

\* executeStakeTransactions / executeStakeTransactionsWithImportedKey up to the loop:
\* the session must exist, the owner is read from session_info.json when the file is
\* there, stake_files/ is listed and must hold a .yaml file.
BatchRead(op_, sid, network, files) ==
    LET d == sessions[sid]
        r == [NoReader EXCEPT !.op = op_, !.sid = sid, !.network = network] IN
    IF ~d.exists
    THEN [r EXCEPT !.pc = "done", !.result = "not-found"]
    ELSE LET o == IF d.hasInfo THEN ownerAddressOf(readJson(d.info)) ELSE Null
             q == [r EXCEPT !.owner = o,
                            !.info = IF d.hasInfo THEN readJson(d.info) ELSE NoInfo] IN
         IF ~d.stakeDir THEN [q EXCEPT !.pc = "done", !.result = "error"]
         ELSE IF files = <<>> THEN [q EXCEPT !.pc = "done", !.result = "no-stake-files"]
         ELSE [q EXCEPT !.pc = "units", !.files = files]

\* one of the read operations is requested for a session id.  The batch routes
\* check the network of the body first.
ReadCalled ==
    /\ server.phase = "serving"
    /\ reader.pc \in {"idle", "done"}
    /\ UNCHANGED <<nonStoreVars, temp, sessions, server, creating>>
    /\ \E op_ \in ReadOps, sid \in SessionIds :
         CASE op_ = "status" -> reader' = StatusRead(sid)
           [] op_ = "download" -> reader' = DownloadRead(sid)
           [] OTHER ->
                \E body \in RequestNetworks :
                   IF networkRejected(networkOf(body))
                   THEN reader' = [NoReader EXCEPT !.op = op_, !.sid = sid,
                                      !.pc = "done", !.result = "invalid-network"]
                   ELSE \E stakeFiles \in readdir(sessions[sid].stakeFiles) :
                           reader' = BatchRead(op_, sid, networkOf(body),
                                               yamlFiles(stakeFiles))

\* the batch loop takes the next listed file: the operator's key name and home are
\* derived from the file name and the stake transaction is run with the network of
\* the request; the unit is added to the report.
BatchUnitProcessed ==
    /\ reader.pc = "units"
    /\ UNCHANGED <<nonStoreVars, temp, sessions, server, creating>>
    /\ LET yamlFile == Head(reader.files)
           tx == [yamlFile |-> yamlFile,
                  stakeFilePath |-> stakeFilePath(reader.sid, yamlFile),
                  operatorKeyName |-> operatorKeyName(yamlFile),
                  operatorHomeDir |->
                      walletHomePath(reader.sid, operatorKeyName(yamlFile)),
                  network |-> reader.network] IN
       reader' = [reader EXCEPT
                     !.files = Tail(reader.files),
                     !.txs = Append(reader.txs, tx),
                     !.count = reader.count + 1,
                     !.pc = IF Tail(reader.files) = <<>> THEN "done" ELSE "units",
                     !.result = IF Tail(reader.files) = <<>> THEN "ok" ELSE "none"]

\* a session a previous run of the server may have left in the data directory
EarlierSessions ==
    {NoSessionDir} \cup
    { CompleteSession(SessionInfo("sA", "pokt1ownerA", n, "2025-01-01T00:00:00.000Z"), m) :
         n \in 1..2, m \in BOOLEAN }

\* the requests served on the session store
NextStore ==
    \/ ExecuteStakeCalled
    \/ StakeDirEnsured
    \/ SessionInfoWritten
    \/ UnitCreated
    \/ MnemonicsStored
    \/ ReadCalled
    \/ BatchUnitProcessed

\* the server is up; the data directory may hold a session of a previous run
InitStore ==
    /\ op = "session"
    /\ BatchIdle
    /\ mnemonic = [id |-> "none", words |-> 0]
    /\ KeyringIdle
    /\ keyring = [b \in Backends |-> [n \in Names |-> Absent]]
    /\ kcalls = 0
    /\ spawned = {}
    /\ logged = {}
    /\ MigrationIdle
    /\ temp = {}
    /\ \E old \in EarlierSessions :
          sessions = [sid \in SessionIds |-> IF sid = "sA" THEN old ELSE NoSessionDir]
    /\ server = [phase |-> "serving", files |-> {}, removed |-> {}]
    /\ creating = NoCreation
    /\ reader = NoReader

SpecStore == InitStore /\ [][NextStore]_vars

\* the server starts, cleans the temp directory and then creates sessions
NextStartup ==
    \/ CleanupStarts
    \/ CleanupVisits
    \/ ExecuteStakeCalled
    \/ StakeDirEnsured
    \/ SessionInfoWritten
    \/ UnitCreated
    \/ MnemonicsStored

\* the server starts on a data directory a previous run may have left a session and
\* temp entries in
InitStartup ==
    /\ op = "session"
    /\ BatchIdle
    /\ mnemonic = [id |-> "none", words |-> 0]
    /\ KeyringIdle
    /\ keyring = [b \in Backends |-> [n \in Names |-> Absent]]
    /\ kcalls = 0
    /\ spawned = {}
    /\ logged = {}
    /\ MigrationIdle
    /\ \E ages \in [TempNames -> Ages \cup {0}] :
          temp = { [name |-> n, age |-> ages[n]] : n \in {m \in TempNames : ages[m] # 0} }
    /\ \E old \in EarlierSessions :
          sessions = [sid \in SessionIds |-> IF sid = "sA" THEN old ELSE NoSessionDir]
    /\ server = [phase |-> "startup", files |-> {}, removed |-> {}]
    /\ creating = NoCreation
    /\ reader = NoReader

SpecStartup == InitStartup /\ [][NextStartup]_vars

InitKeyring ==
    /\ op = "session"
    /\ BatchIdle
    /\ mnemonic = [id |-> "none", words |-> 0]
    /\ KeyringIdle
    /\ keyring \in [Backends -> [Names -> {Absent, OldIdentity}]]
    /\ kcalls = 0
    /\ spawned = {}
    /\ logged = {}
    /\ MigrationIdle
    /\ StoreIdle

SpecKeyring == InitKeyring /\ [][NextKeyring]_vars

Init ==
    /\ op \in Ops
    /\ numUnits \in (IF op = "node" THEN {1} ELSE 0..MaxUnits)
    /\ sessionDir \in (IF op \in {"session", "imported"}
                       THEN {"missing", "noStakeDir", "ok"} ELSE {"ok"})
    /\ (sessionDir # "ok" => numUnits = 0)
    /\ ownerImport \in (IF op = "imported" THEN {"ok", "fail"} ELSE {"none"})
    /\ seqText \in SeqTexts
    /\ pc = "idle"
    /\ cur = 0
    /\ attempt = 0
    /\ lastError = NoError
    /\ sleepFor = 0
    /\ clock = 0
    /\ delays = NoDelays
    /\ results = EmptyResults
    /\ topError = {}
    /\ status = [u \in 1..numUnits |-> "pending"]
    /\ txLog = <<>>
    \* executeStakeTransactions: the ownerKeyName argument may be missing, and so may
    \* ownerAddress in session_info.json; the other operations default the name
    /\ signing \in (IF op = "session"
                    THEN [ownerKeyName : {Null, "ownerKey"}, ownerAddress : {Null, "pokt1owner"}]
                    ELSE {[ownerKeyName |-> "owner", ownerAddress |-> Null]})
    /\ mnemonic = (IF op \in {"mnemonic", "node"}
                   THEN [id |-> "mnemonicA", words |-> 12]
                   ELSE [id |-> "none", words |-> 0])
    /\ KeyringIdle
    /\ keyring = [b \in Backends |-> [n \in Names |-> Absent]]
    /\ kcalls = 0
    /\ spawned = {}
    /\ logged = {}
    /\ MigrationIdle
    /\ StoreIdle

\* --------------------------------------- mnemonic stake with its keyring import
\* The mnemonic batch / createNodeAndStake together with the keyring operation they
\* await: the import of a unit is the importWalletWithMnemonic call below instead of
\* the bare outcome of ImportReturns.
MaxImportUnits == 2

\* config.pocketd.defaultKeyringBackend: POCKETD_KEYRING_BACKEND || 'test'
defaultKeyringBackend == "test"

\* const backend = keyringBackend || this.keyringBackend: the backend named by the
\* stake command's --keyring-backend, the one the import was asked to use
stakeCommandBackend == defaultKeyringBackend

\* importWalletWithMnemonic(keyName, mnemonic, keyringHomeDir, backend) is called for
\* the unit (its only call: unit number cur makes call number cur).
ImportCalled ==
    /\ pc = "import"
    /\ kpc \in {"idle", "done"}
    /\ kcalls < cur
    /\ UNCHANGED <<batchVars, migrationVars, storeVars>>
    /\ KCall("mnemonic", signingKeyName, defaultKeyringBackend, mnemonic)

\* the awaited importWalletWithMnemonic resolved or rejected
ImportResolved ==
    /\ pc = "import"
    /\ kpc = "done"
    /\ kcalls = cur
    /\ UNCHANGED <<op, numUnits, sessionDir, ownerImport, seqText, mnemonic, signing, clock, delays, sleepFor>>
    /\ UNCHANGED <<keyringVars, migrationVars, storeVars, spawned>>
    /\ AfterImport(kresult.status = "ok",
                   [code |-> "none", stderr |-> {}, message |-> kresult.error],
                   logged)

NextStakeMnemonic ==
    \/ StartBatch
    \/ ImportCalled
    \/ MnVersionReturns
    \/ MnListReturns
    \/ MnDeleteReturns
    \/ MnAddReturns
    \/ ImportResolved
    \/ TxReturns
    \/ BackoffElapses
    \/ GapElapses

InitStakeMnemonic ==
    /\ op \in {"mnemonic", "node"}
    /\ numUnits \in (IF op = "node" THEN {1} ELSE 0..MaxImportUnits)
    /\ sessionDir = "ok"
    /\ ownerImport = "none"
    /\ seqText = SeqMismatchFull
    /\ pc = "idle"
    /\ cur = 0
    /\ attempt = 0
    /\ lastError = NoError
    /\ sleepFor = 0
    /\ clock = 0
    /\ delays = NoDelays
    /\ results = EmptyResults
    /\ topError = {}
    /\ status = [u \in 1..numUnits |-> "pending"]
    /\ txLog = <<>>
    /\ signing = [ownerKeyName |-> "owner", ownerAddress |-> Null]
    /\ mnemonic \in Mnemonics
    /\ KeyringIdle
    /\ keyring \in [Backends -> [Names -> {Absent, OldIdentity}]]
    /\ kcalls = 0
    /\ spawned = {}
    /\ logged = {}
    /\ MigrationIdle
    /\ StoreIdle

SpecStakeMnemonic == InitStakeMnemonic /\ [][NextStakeMnemonic]_vars

\* ------------------------------------------------------------ migration sessions
\* MigrationExecutor of stake-executor.js: executeMigration (claim-accounts) and
\* executeArmoredMigration (claim-account).  Every await on a pocketd call is a step,
\* so two sessions interleave exactly where the event loop lets them.  All sessions
\* work on --home localnet/pocketd, --keyring-backend test.  The inputs are the ones
\* validateMigrationData / validateArmoredMigrationData accept.
\* services/migration-executor.js, the module routes/migration.js loads, holds a
\* second executeMigration; it is the flow "migration-executor".

\* const sessionId = uuidv4(): two sessions of the service
Sessions == {"s1", "s2"}

\* const shannonKeyName = `shannon-${sessionId.substring(0, 8)}`
ShannonKeyName(s) == IF s = "s1" THEN "shannon-s1" ELSE "shannon-s2"

\* `keys list` prints the names in alphabetical order
SortedNames == <<"alice", "shannon-s1", "shannon-s2">>

\* the `name:` lines of the listing, in the order the delete loop walks them
Listed(ring) == SelectSeq(SortedNames, LAMBDA n : n \in ring)

Flows == {"claim-accounts", "armored"}

\* executeMigration of services/migration-executor.js
ServiceFlow == "migration-executor"

\* shannonSignature: absent, a hex private key, or a phrase of 12..24 words
ShannonCredentials(s) ==
    { [kind |-> "none", id |-> "none"],
      [kind |-> "hex", id |-> IF s = "s1" THEN "shannonKey-s1" ELSE "shannonKey-s2"],
      [kind |-> "mnemonic", id |-> IF s = "s1" THEN "shannonMnemonic-s1"
                                                 ELSE "shannonMnemonic-s2"] }

\* const isMnemonic = wordCount >= 12 && wordCount <= 24
isMnemonic(c) == c.kind = "mnemonic"

\* console.log(`Morse Private Key preview: ${morsePrivateKeys[0].substring(0, 20)}...`)
MorseKeyPreview(s) ==
    [secret |-> IF s = "s1" THEN "morseKey-s1" ELSE "morseKey-s2",
     part |-> "first 20 characters"]

\* console.log(`Shannon Signature recibida: ${signature.substring(0, 20)}...`)
ShannonSignaturePreview(c) == [secret |-> c.id, part |-> "first 20 characters"]

\* `keys add alice ... --output json`
KeysAddCommand == Command("keys add", {}, {}, {})

\* `keys add <shannonKeyName> --recover --source=<mnemonicFile>`: the phrase is in
\* the file temp/mnemonic-<sessionId>.txt
KeysAddRecoverSourceCommand(c) == Command("keys add --recover --source", {}, {}, {c.id})

\* `pocketd tx migration claim-accounts ... --from=<signingKeyName>` and
\* `pocketd tx migration claim-account <armoredKeyFile> --from=<signingKeyName>`
ClaimCommand(flow) ==
    Command(IF flow = "armored" THEN "tx migration claim-account"
                                ELSE "tx migration claim-accounts", {}, {}, {})

\* 'No signing account available. ...' / 'No valid signing account found in keyring'
NoSigningAccountError == {"No signing account available"}

\* 'Migration command failed...' and the other messages of the claim's catch
MigrationCommandError == {"Migration command failed"}

\* `Failed to create alice account: ${error.message}` (migration-executor.js)
AliceAccountError == {"Failed to create alice account"}

\* how the claim command ends: with a transaction, with one of the chain errors the
\* catch recognises in stderr, killed by exec's timeout, or with another failure
\* key_not_found: the signing key is not in the keyring, or the binary is not there
\* ("... not found" on stderr); no_output_file: the command ended well and left no
\* output file
ClaimOutcomes ==
    {"ok", "already_claimed", "account_not_found", "insufficient_funds",
     "no_claimable_accounts", "timeout", "generic", "key_not_found", "no_output_file"}

\* cmdError.stderr of a failed claim command, as the substrings the catch looks for
ClaimStderr(outcome) ==
    CASE outcome = "already_claimed" -> {"has already been claimed"}
      [] outcome = "account_not_found" -> {"account", "not found"}
      [] outcome = "insufficient_funds" -> {"insufficient funds"}
      [] outcome = "no_claimable_accounts" -> {"0/", "claimable Morse accounts found"}
      [] outcome = "key_not_found" -> {"not found"}
      [] outcome = "generic" -> {"Error"}
      [] OTHER -> {}

\* the errorType the inner catch of runMigrationCommand selects from stderr
StderrClass(stderr) ==
    IF stderr = {} THEN "generic"
    ELSE IF "has already been claimed" \in stderr THEN "already_claimed"
    ELSE IF "account" \in stderr /\ "not found" \in stderr THEN "account_not_found"
    ELSE IF "insufficient funds" \in stderr \/ "insufficient account funds" \in stderr
    THEN "insufficient_funds"
    ELSE IF "0/" \in stderr /\ "claimable Morse accounts found" \in stderr
    THEN "no_claimable_accounts"
    ELSE "generic"

\* the errorType the outer catch of runMigrationCommand returns: chosen again, from
\* error.message; the class chosen from stderr was a local of the inner catch
ErrorTypeOfMessage(message) ==
    IF "already been migrated" \in message \/ "already been claimed" \in message
    THEN "already_claimed"
    ELSE IF "not found" \in message THEN "account_not_found"
    ELSE IF "insufficient funds" \in message THEN "insufficient_funds"
    ELSE IF "No claimable Morse accounts" \in message THEN "no_claimable_accounts"
    ELSE "unknown"

\* the error text returned for a failed claim: the user-facing message of the
\* recognised chain error, else the command failure (a timeout leaves no stderr)
ClaimError(flow, outcome) ==
    IF flow = ServiceFlow THEN MigrationCommandError
    ELSE CASE outcome = "already_claimed" -> {"already been migrated"}
           [] outcome = "account_not_found" -> {"not found"}
           [] outcome = "insufficient_funds" -> {"insufficient funds"}
           [] outcome = "no_claimable_accounts" /\ flow = "claim-accounts" ->
                 {"No claimable Morse accounts"}
           \* `Migration command failed: ${cmdError.message}`, and exec's message
           \* ends with the stderr of the command
           [] outcome = "key_not_found" ->
                 IF flow = "armored" THEN {"Command failed", "not found"}
                 ELSE MigrationCommandError \cup {"Command failed", "not found"}
           [] outcome = "no_output_file" ->
                 IF flow = "armored" THEN {"Failed to extract information"}
                 ELSE MigrationCommandError \cup {"did not generate output file"}
           [] OTHER -> IF flow = "armored" THEN {"transaction failed"}
                                           ELSE MigrationCommandError

\* errorType of the object a failed claim returns.  runArmoredMigrationCommand
\* returns the class it chose from stderr when the command ended without a txhash
\* and no errorType otherwise; migration-executor.js returns none.
ReturnedErrorType(flow, outcome) ==
    CASE flow = "claim-accounts" ->
            ErrorTypeOfMessage(ClaimError(flow, outcome))
      [] flow = "armored" /\ outcome \in {"already_claimed", "account_not_found",
                                         "insufficient_funds", "generic",
                                         "no_claimable_accounts"} ->
            IF outcome = "no_claimable_accounts" THEN "generic" ELSE outcome
      [] OTHER -> "none"

\* a session before executeMigration / executeArmoredMigration is called
\* inputFile, tempFile and armoredKeyFile are the session's files on disk:
\* input/migration-input-<id>.json (the Morse keys), temp/mnemonic-<id>.txt and
\* temp/armored-key-<id>.json.
\* fromPresent, imported, listed, claims and fault are history: whether the signer was
\* in the keyring when the claim was issued, whether this session's import command
\* succeeded, whether the verifying listing showed the session's key, how many times
\* the claim command was executed, whether one of this session's pocketd calls failed
NewSession(flow, c) ==
    [flow |-> flow, cred |-> c, pc |-> "idle", aliceExists |-> "unset",
     useAliceForSigning |-> FALSE, todo |-> <<>>, tempFile |-> FALSE,
     inputFile |-> FALSE, armoredKeyFile |-> FALSE,
     from |-> Null, fromPresent |-> FALSE, imported |-> FALSE, listed |-> FALSE,
     claims |-> 0, fault |-> FALSE, result |-> "none", error |-> {},
     success |-> FALSE, stderrClass |-> "none", errorType |-> "none"]

\* the session's record is replaced, a process is spawned, secrets are logged
MStep(s, r, cmds, lg) ==
    /\ msess' = [msess EXCEPT ![s] = r]
    /\ spawned' = spawned \cup cmds
    /\ logged' = logged \cup lg

Faulted(r, outcome) == [r EXCEPT !.fault = r.fault \/ outcome = "fault"]

\* the operation ended: it returned { success: true, sessionId, result } with
\* result.success true ("success") or false ("failed"), or it threw
\* { success: false, error } ("threw")
MEnd(r, result, error) ==
    [r EXCEPT !.pc = "done", !.result = result, !.error = error,
              !.success = (result # "threw")]

\* cleanup(sessionId): fs.remove of the session's files in input/ and temp/.
\* migration-executor.js takes fs from require('fs').promises, which has no remove:
\* the call throws inside cleanup's try and nothing is removed.
cleanup(r) ==
    IF r.flow = ServiceFlow THEN r
    ELSE [r EXCEPT !.inputFile = FALSE, !.tempFile = FALSE, !.armoredKeyFile = FALSE]

\* the operation's catch: cleanup, then throw { success: false, error }
MThrow(r, error) == MEnd(cleanup(r), "threw", error)

\* the Shannon import, up to its await.  migration-executor.js has no mnemonic
\* detection and no fallback: whatever was supplied goes to `keys import-hex`.
ShannonImport(r) ==
    IF r.flow = ServiceFlow
    THEN [r EXCEPT !.pc = IF r.cred.kind = "none" THEN "verify-list" ELSE "import"]
    ELSE IF r.cred.kind = "none"
    THEN IF r.flow = "armored" /\ r.aliceExists # "yes"
         THEN MEnd(r, "failed", NoSigningAccountError)
         ELSE [r EXCEPT !.useAliceForSigning = TRUE, !.pc = "verify-list"]
    ELSE IF isMnemonic(r.cred)
         THEN [r EXCEPT !.tempFile = TRUE, !.pc = "import"]
         ELSE [r EXCEPT !.pc = "import"]

ShannonImportSpawns(r) ==
    CASE ShannonImport(r).pc = "verify-list" -> {KeysListCommand}
      [] ShannonImport(r).pc = "import" ->
            {IF isMnemonic(r.cred) /\ r.flow # ServiceFlow
             THEN KeysAddRecoverSourceCommand(r.cred)
             ELSE KeysImportHexCommand(r.cred)}
      [] OTHER -> {}

\* what follows ensureAliceAccount, up to the next await.
\* executeMigration:        await this.ensureAliceAccount()  (the result is dropped)
\* executeArmoredMigration: if (!aliceExists && !shannonSignature) throw
\* then runMigrationCommand / runArmoredMigrationCommand list the keys to delete;
\* migration-executor.js does not empty the keyring
RunCommand(r) ==
    IF r.flow = "armored" /\ r.aliceExists = "no" /\ r.cred.kind = "none"
    THEN MThrow(r, NoSigningAccountError)
    ELSE IF r.flow = ServiceFlow THEN ShannonImport(r)
    ELSE [r EXCEPT !.pc = "clean-list"]

RunCommandSpawns(r) ==
    IF RunCommand(r).pc = "clean-list" THEN {KeysListCommand}
    ELSE IF r.flow = ServiceFlow THEN ShannonImportSpawns(r)
    ELSE {}

\* const signingKeyName = useAliceForSigning ? 'alice' : shannonKeyName, and the
\* claim command is executed with --from=signingKeyName
\* migration-executor.js: --from=${shannonKeyName} in every case
IssueClaim(s, r, ring) ==
    LET name == IF r.flow # ServiceFlow /\ r.useAliceForSigning
                THEN "alice" ELSE ShannonKeyName(s) IN
    [r EXCEPT !.pc = "claim", !.from = name, !.fromPresent = name \in ring,
              !.claims = r.claims + 1]

\* the claim command failed: the failure is returned, the command is not run again
\* faulty variant: the command is executed again
ClaimFailsRetried(r, error) == [r EXCEPT !.claims = r.claims + 1, !.error = error]

ClaimFails(r, error) == MEnd(r, "failed", error)

\* executeMigration / executeArmoredMigration is called: the inputs are logged and
\* ensureAliceAccount lists the keys.
ExecuteMigrationCalled(s) ==
    /\ msess[s].pc = "idle"
    /\ UNCHANGED <<batchVars, keyringVars, storeVars, minput, mring>>
    /\ MStep(s, [msess[s] EXCEPT !.pc = "alice-list",
                                  !.inputFile = msess[s].flow # "armored",
                                  !.armoredKeyFile = msess[s].flow = "armored"],
             {KeysListCommand},
             IF msess[s].flow = "armored" THEN {}
             ELSE {MorseKeyPreview(s)} \cup
                  (IF msess[s].cred.kind # "none"
                   THEN {ShannonSignaturePreview(msess[s].cred)} ELSE {}))

\* faulty variant: a session that saw alice once answers for every later call
AliceListReturnsCached(s) ==
    /\ msess[s].pc = "alice-list"
    /\ UNCHANGED <<batchVars, keyringVars, storeVars, minput, mring>>
    /\ \E outcome \in CliOutcomes :
         LET r == Faulted(msess[s], outcome) IN
         IF outcome = "ok" /\ ("alice" \in mring
                                \/ \E t \in Sessions : msess[t].aliceExists = "yes")
         THEN LET a == [r EXCEPT !.aliceExists = "yes"] IN
              MStep(s, RunCommand(a), RunCommandSpawns(a), {})
         ELSE MStep(s, [r EXCEPT !.pc = "alice-add"], {KeysAddCommand}, {})

\* ensureAliceAccount: `keys list` returned.
AliceListReturns(s) ==
    /\ msess[s].pc = "alice-list"
    /\ UNCHANGED <<batchVars, keyringVars, storeVars, minput, mring>>
    /\ \E outcome \in CliOutcomes :
         LET r == Faulted(msess[s], outcome) IN
         IF outcome = "ok" /\ "alice" \in mring
         THEN LET a == [r EXCEPT !.aliceExists = "yes"] IN
              MStep(s, RunCommand(a), RunCommandSpawns(a), {})
         ELSE MStep(s, [r EXCEPT !.pc = "alice-add"], {KeysAddCommand}, {})

\* ensureAliceAccount: `keys add alice` returned.  On a name that is there the
\* command fails with 'already exists'; any other failure makes the function return
\* false (migration-executor.js: throw, which ends executeMigration).
AliceAddReturns(s) ==
    /\ msess[s].pc = "alice-add"
    /\ UNCHANGED <<batchVars, keyringVars, storeVars, minput>>
    /\ \E outcome \in CliOutcomes :
         LET r == Faulted(msess[s], outcome) IN
         IF "alice" \in mring
         THEN LET a == [msess[s] EXCEPT !.aliceExists = "yes"] IN
              /\ mring' = mring
              /\ MStep(s, RunCommand(a), RunCommandSpawns(a), {})
         ELSE IF outcome = "ok"
         THEN /\ mring' = mring \cup {"alice"}
              /\ MStep(s, [r EXCEPT !.pc = "alice-verify"], {KeysListCommand}, {})
         ELSE LET a == [r EXCEPT !.aliceExists = "no"] IN
              /\ mring' = mring
              /\ IF r.flow = ServiceFlow
                 THEN MStep(s, MThrow(a, AliceAccountError), {}, {})
                 ELSE MStep(s, RunCommand(a), RunCommandSpawns(a), {})

\* ensureAliceAccount: the verifying `keys list` returned; true is returned whether
\* or not alice is listed ("continuing anyway").  migration-executor.js throws when
\* alice is not listed or the listing failed.
AliceVerifyReturns(s) ==
    /\ msess[s].pc = "alice-verify"
    /\ UNCHANGED <<batchVars, keyringVars, storeVars, minput, mring>>
    /\ \E outcome \in CliOutcomes :
         LET r == Faulted(msess[s], outcome)
             a == [r EXCEPT !.aliceExists = "yes"] IN
         IF r.flow = ServiceFlow /\ ~(outcome = "ok" /\ "alice" \in mring)
         THEN MStep(s, MThrow([r EXCEPT !.aliceExists = "no"], AliceAccountError),
                    {}, {})
         ELSE MStep(s, RunCommand(a), RunCommandSpawns(a), {})

\* "Vaciar el keyring": the `keys list` returned; every listed name is to be
\* deleted.  A failed listing skips the cleaning.
CleanListReturns(s) ==
    /\ msess[s].pc = "clean-list"
    /\ UNCHANGED <<batchVars, keyringVars, storeVars, minput, mring>>
    /\ \E outcome \in CliOutcomes :
         LET r == Faulted(msess[s], outcome)
             names == IF outcome = "ok" THEN Listed(mring) ELSE <<>> IN
         IF names # <<>>
         THEN MStep(s, [r EXCEPT !.todo = names, !.pc = "clean-delete"],
                    {KeysDeleteCommand}, {})
         ELSE MStep(s, ShannonImport(r), ShannonImportSpawns(r), {})

\* "Vaciar el keyring": one `keys delete <keyName> --yes` returned; a failure is
\* logged and the loop goes on.
CleanDeleteReturns(s) ==
    /\ msess[s].pc = "clean-delete"
    /\ UNCHANGED <<batchVars, keyringVars, storeVars, minput>>
    /\ \E outcome \in CliOutcomes :
         LET r == [Faulted(msess[s], outcome) EXCEPT !.todo = Tail(msess[s].todo)] IN
         /\ mring' = IF outcome = "ok" THEN mring \ {Head(msess[s].todo)} ELSE mring
         /\ IF r.todo # <<>>
            THEN MStep(s, r, {KeysDeleteCommand}, {})
            ELSE MStep(s, ShannonImport(r), ShannonImportSpawns(r), {})

\* the Shannon import command returned.  Success: the key is in the keyring and the
\* mnemonic file is unlinked.  Failure: the error message, which quotes the command
\* line, is logged and alice is used.  `keys import-hex` of a phrase fails.
ShannonImportReturns(s) ==
    /\ msess[s].pc = "import"
    /\ UNCHANGED <<batchVars, keyringVars, storeVars, minput>>
    /\ \E outcome \in CliOutcomes :
         LET hexOfPhrase == msess[s].flow = ServiceFlow /\ isMnemonic(msess[s].cred)
             r == Faulted(msess[s], IF hexOfPhrase THEN "fault" ELSE outcome) IN
         IF outcome = "ok" /\ ~hexOfPhrase
         THEN /\ mring' = mring \cup {ShannonKeyName(s)}
              /\ MStep(s, [r EXCEPT !.imported = TRUE, !.tempFile = FALSE,
                                    !.pc = "verify-list"], {KeysListCommand}, {})
         ELSE /\ mring' = mring
              /\ MStep(s, [r EXCEPT !.useAliceForSigning = TRUE, !.pc = "verify-list"],
                       {KeysListCommand},
                       IF isMnemonic(r.cred) /\ r.flow # ServiceFlow
                       THEN {} ELSE {CommandLineLogged(r.cred)})

\* the verifying `keys list` returned, the signer is chosen and the claim command
\* is executed.
\* runMigrationCommand: a missing Shannon key or a failed listing selects alice.
\* runArmoredMigrationCommand: the same when aliceExists; the throw for a missing
\* alice is inside the try and its catch selects alice again when aliceExists.
\* migration-executor.js: a failed listing ends the command, the listing's content
\* is not looked at.
VerifyListReturns(s) ==
    /\ msess[s].pc = "verify-list"
    /\ UNCHANGED <<batchVars, keyringVars, storeVars, minput, mring>>
    /\ \E outcome \in CliOutcomes :
         LET found == outcome = "ok" /\ ShannonKeyName(s) \in mring
             r == [Faulted(msess[s], outcome) EXCEPT !.listed = found]
             a == IF found THEN r ELSE [r EXCEPT !.useAliceForSigning = TRUE] IN
         IF r.flow = ServiceFlow
         THEN IF outcome = "ok"
              THEN MStep(s, IssueClaim(s, r, mring), {ClaimCommand(r.flow)}, {})
              ELSE MStep(s, MEnd(r, "failed", {"Command failed"}), {}, {})
         ELSE IF ~found /\ r.flow = "armored" /\ r.aliceExists # "yes"
         THEN MStep(s, MEnd(r, "failed", NoSigningAccountError), {}, {})
         ELSE MStep(s, IssueClaim(s, a, mring), {ClaimCommand(r.flow)}, {})

\* the claim command returned.  pocketd cannot sign with a name that is not in the
\* keyring; a failure is returned as result.success = false.
ClaimReturns(s) ==
    /\ msess[s].pc = "claim"
    /\ UNCHANGED <<batchVars, keyringVars, storeVars, minput, mring>>
    /\ \E outcome \in ClaimOutcomes :
         LET r == [msess[s] EXCEPT !.fault = msess[s].fault \/ outcome # "ok"]
             ended == IF outcome = "ok" /\ r.from \notin mring THEN "key_not_found"
                      ELSE outcome
             f == [r EXCEPT !.stderrClass = StderrClass(ClaimStderr(ended)),
                            !.errorType = ReturnedErrorType(r.flow, ended)] IN
         IF ended = "ok"
         THEN MStep(s, MEnd(r, "success", {}), {}, {})
         ELSE MStep(s, ClaimFails(f, ClaimError(r.flow, ended)), {}, {})

NextMigration ==
    \/ \E s \in Sessions : ExecuteMigrationCalled(s)
    \/ \E s \in Sessions : AliceListReturns(s)
    \/ \E s \in Sessions : AliceAddReturns(s)
    \/ \E s \in Sessions : AliceVerifyReturns(s)
    \/ \E s \in Sessions : CleanListReturns(s)
    \/ \E s \in Sessions : CleanDeleteReturns(s)
    \/ \E s \in Sessions : ShannonImportReturns(s)
    \/ \E s \in Sessions : VerifyListReturns(s)
    \/ \E s \in Sessions : ClaimReturns(s)

\* the keyring holds alice or nothing; both sessions are still to be called
InitMigration ==
    /\ op = "session"
    /\ BatchIdle
    /\ mnemonic = [id |-> "none", words |-> 0]
    /\ KeyringIdle
    /\ keyring = [b \in Backends |-> [n \in Names |-> Absent]]
    /\ kcalls = 0
    /\ spawned = {}
    /\ logged = {}
    /\ StoreIdle
    /\ mring \in SUBSET {"alice"}
    /\ minput = NoInput
    /\ \E f1 \in Flows, f2 \in Flows :
         \E c1 \in ShannonCredentials("s1"), c2 \in ShannonCredentials("s2") :
            msess = [s \in Sessions |-> IF s = "s1" THEN NewSession(f1, c1)
                                                    ELSE NewSession(f2, c2)]

SpecMigration == InitMigration /\ [][NextMigration]_vars

\* one call of any of the three operations, with no other actor on the keyring
InitMigrationAlone ==
    /\ op = "session"
    /\ BatchIdle
    /\ mnemonic = [id |-> "none", words |-> 0]
    /\ KeyringIdle
    /\ keyring = [b \in Backends |-> [n \in Names |-> Absent]]
    /\ kcalls = 0
    /\ spawned = {}
    /\ logged = {}
    /\ StoreIdle
    /\ mring \in SUBSET {"alice", "shannon-s2"}
    /\ minput = NoInput
    /\ \E f \in Flows \cup {ServiceFlow}, c \in ShannonCredentials("s1") :
            msess = [s \in {"s1"} |-> NewSession(f, c)]

NextMigrationAlone ==
    \/ ExecuteMigrationCalled("s1")
    \/ AliceListReturns("s1")
    \/ AliceAddReturns("s1")
    \/ AliceVerifyReturns("s1")
    \/ CleanListReturns("s1")
    \/ CleanDeleteReturns("s1")
    \/ ShannonImportReturns("s1")
    \/ VerifyListReturns("s1")
    \/ ClaimReturns("s1")

SpecMigrationAlone == InitMigrationAlone /\ [][NextMigrationAlone]_vars

\* executeMigration: validateMigrationData throws for an empty list and for a
\* credential isValidMorsePrivateKey rejects.
MigrationDataValidated ==
    /\ minput.pc = "idle"
    /\ UNCHANGED <<batchVars, keyringVars, storeVars, mring, msess, spawned, logged>>
    /\ minput' = [minput EXCEPT !.pc =
          IF /\ minput.keys # <<>>
             /\ \A i \in 1..Len(minput.keys) : isValidMorsePrivateKey(minput.keys[i])
          THEN "validated" ELSE "threw"]

\* executeMigration: prepareInputFile writes input/migration-input-<id>.json
InputFilePrepared ==
    /\ minput.pc = "validated"
    /\ UNCHANGED <<batchVars, keyringVars, storeVars, mring, msess, spawned, logged>>
    /\ minput' = [minput EXCEPT !.pc = "prepared", !.written = TRUE,
                                !.file = inputData(minput.keys)]

\* runMigrationCommand writes the file again, from the same list
InputFileWritten ==
    /\ minput.pc = "prepared"
    /\ UNCHANGED <<batchVars, keyringVars, storeVars, mring, msess, spawned, logged>>
    /\ minput' = [minput EXCEPT !.pc = "command", !.file = cleanedKeys(minput.keys)]

NextInputFile ==
    \/ MigrationDataValidated
    \/ InputFilePrepared
    \/ InputFileWritten

\* a migration request with up to MaxKeys credentials
InitInputFile ==
    /\ op = "session"
    /\ BatchIdle
    /\ mnemonic = [id |-> "none", words |-> 0]
    /\ KeyringIdle
    /\ keyring = [b \in Backends |-> [n \in Names |-> Absent]]
    /\ kcalls = 0
    /\ spawned = {}
    /\ logged = {}
    /\ StoreIdle
    /\ mring = {}
    /\ msess = <<>>
    /\ \E n \in 0..MaxKeys : \E keys \in [1..n -> MorseCredentials] :
          minput = [NoInput EXCEPT !.keys = keys]

SpecInputFile == InitInputFile /\ [][NextInputFile]_vars

\* ------------------------------------------------------------------ controller
\* stake.controller.js: every operation awaits validatePocketd() (`pocketd
\* version`), throws when it answers false, validates its arguments and only then
\* calls the executor.  "create" is executeStake, the creation of a session.
ControllerOps == Ops \cup {"create"}
PocketdUnavailableError == {"Pocketd CLI is not available"}
ControllerValidationError == {"is required"}

\* faulty variant: the executor is reached without the probe
ControllerCalledUnprobed ==
    /\ pc = "idle"
    /\ pc' = "probed"
    /\ spawned' = spawned
    /\ UNCHANGED <<op, numUnits, sessionDir, ownerImport, seqText, mnemonic, signing>>
    /\ UNCHANGED <<cur, attempt, lastError, sleepFor, clock, delays, results, topError,
                   status, txLog, logged>>
    /\ UNCHANGED <<keyringVars, migrationVars, storeVars>>

\* the controller function is called: validatePocketd executes `pocketd version`
ControllerCalled ==
    /\ pc = "idle"
    /\ pc' = "probe"
    /\ spawned' = spawned \cup {VersionCommand}
    /\ UNCHANGED <<op, numUnits, sessionDir, ownerImport, seqText, mnemonic, signing>>
    /\ UNCHANGED <<cur, attempt, lastError, sleepFor, clock, delays, results, topError,
                   status, txLog, logged>>
    /\ UNCHANGED <<keyringVars, migrationVars, storeVars>>

\* validatePocketd resolved: false when the command failed or timed out, and the
\* controller throws; otherwise the arguments are validated (a missing private
\* key, mnemonic, stake file or owner address throws)
ProbeReturns ==
    /\ pc = "probe"
    /\ UNCHANGED <<op, numUnits, sessionDir, ownerImport, seqText, mnemonic, signing>>
    /\ UNCHANGED <<keyringVars, migrationVars, storeVars, spawned>>
    /\ \E outcome \in CliOutcomes, valid \in BOOLEAN :
         IF outcome = "fault"
         THEN Throw([message |-> PocketdUnavailableError])
         ELSE IF ~valid /\ op \in {"imported", "mnemonic", "node"}
         THEN Throw([message |-> ControllerValidationError])
         ELSE /\ pc' = "probed"
              /\ UNCHANGED <<cur, attempt, lastError, sleepFor, clock, delays, results,
                             topError, status, txLog, logged>>

\* await stakeExecutor.executeStakeTransactions / ...WithImportedKey /
\* executeMultipleStakesWithMnemonic / createNodeAndStake
ExecutorCalled ==
    /\ pc = "probed"
    /\ op \in Ops
    /\ BatchCalled

\* await stakeExecutor.executeStake(stakeData)
ExecutorCreates ==
    /\ pc = "probed"
    /\ op = "create"
    /\ creating.pc = "idle"
    /\ ExecuteStakeCalled

NextController ==
    \/ ControllerCalled
    \/ ProbeReturns
    \/ ExecutorCalled
    \/ ExecutorCreates
    \/ TxReturns
    \/ ImportReturns
    \/ BackoffElapses
    \/ GapElapses
    \/ StakeDirEnsured
    \/ SessionInfoWritten
    \/ UnitCreated
    \/ MnemonicsStored

\* one controller call: a batch on a session (Init), or executeStake on a data
\* directory that may hold a session of a previous run (InitStore)
InitController ==
    \/ Init
    \/ /\ op = "create"
       /\ BatchIdle
       /\ mnemonic = [id |-> "none", words |-> 0]
       /\ KeyringIdle
       /\ keyring = [b \in Backends |-> [n \in Names |-> Absent]]
       /\ kcalls = 0
       /\ spawned = {}
       /\ logged = {}
       /\ MigrationIdle
       /\ temp = {}
       /\ \E old \in EarlierSessions :
             sessions = [sid \in SessionIds |-> IF sid = "sA" THEN old ELSE NoSessionDir]
       /\ server = [phase |-> "serving", files |-> {}, removed |-> {}]
       /\ creating = NoCreation
       /\ reader = NoReader

SpecController == InitController /\ [][NextController]_vars

\* importKeyToKeyring / executeStakeWithMnemonic is called by c: the file name is
\* built from Date.now(), which never goes back, and fs.writeFile is awaited.
TempCalled(c) ==
    /\ tcalls[c].pc = "idle"
    /\ UNCHANGED <<batchVars, migrationVars, storeVars, spawned, logged>>
    /\ UNCHANGED <<keyring, kpc, kreq, kst, kresult, ktemp, kcalls, tfiles>>
    /\ \E fn \in TempFunctions, now \in Milliseconds :
         /\ \A d \in Callers : tcalls[d].now <= now
         /\ tcalls' = [tcalls EXCEPT ![c] = [fn |-> fn, pc |-> "write", now |-> now,
                                              read |-> NotRead]]

\* the awaited fs.writeFile is done; the command that names the file is executed
\* (executeStakeWithMnemonic: after the import of the wallet)
TempFileWritten(c) ==
    /\ tcalls[c].pc = "write"
    /\ UNCHANGED <<batchVars, migrationVars, storeVars, spawned, logged>>
    /\ UNCHANGED <<keyring, kpc, kreq, kst, kresult, ktemp, kcalls>>
    /\ tfiles' = writeFile(tfiles, tempFileName(tcalls[c].fn, tcalls[c].now), contentOf(c))
    /\ tcalls' = [tcalls EXCEPT ![c].pc = "command"]

\* the command (`keys import <name> <tempKeyFile>`, `tx supplier stake-supplier
\* --config <tempStakeFile>`) opens the file and ends.  When it fails, the catch
\* throws and the file is left; otherwise fs.remove is awaited.
TempCommandReturns(c) ==
    /\ tcalls[c].pc = "command"
    /\ UNCHANGED <<batchVars, migrationVars, storeVars, spawned, logged>>
    /\ UNCHANGED <<keyring, kpc, kreq, kst, kresult, ktemp, kcalls, tfiles>>
    /\ \E outcome \in CliOutcomes :
         LET found == readFile(tfiles, tempFileName(tcalls[c].fn, tcalls[c].now)) IN
         tcalls' = [tcalls EXCEPT ![c].read = found,
                                  ![c].pc = IF found = Missing \/ outcome = "fault"
                                            THEN "threw" ELSE "remove"]

\* the awaited fs.remove(tempKeyFile) / fs.remove(tempStakeFile) is done
TempFileRemoved(c) ==
    /\ tcalls[c].pc = "remove"
    /\ UNCHANGED <<batchVars, migrationVars, storeVars, spawned, logged>>
    /\ UNCHANGED <<keyring, kpc, kreq, kst, kresult, ktemp, kcalls>>
    /\ tfiles' = remove(tfiles, tempFileName(tcalls[c].fn, tcalls[c].now))
    /\ tcalls' = [tcalls EXCEPT ![c].pc = "returned"]

NextTempFiles ==
    \/ \E c \in Callers : TempCalled(c)
    \/ \E c \in Callers : TempFileWritten(c)
    \/ \E c \in Callers : TempCommandReturns(c)
    \/ \E c \in Callers : TempFileRemoved(c)

InitTempFiles ==
    /\ op = "session"
    /\ BatchIdle
    /\ mnemonic = [id |-> "none", words |-> 0]
    /\ KeyringIdle
    /\ keyring = [b \in Backends |-> [n \in Names |-> Absent]]
    /\ kcalls = 0
    /\ spawned = {}
    /\ logged = {}
    /\ StoreIdle
    /\ MigrationIdle

SpecTempFiles == InitTempFiles /\ [][NextTempFiles]_vars

\* The operations that decide on the keyring's content: a mnemonic batch (or
\* createNodeAndStake) importing the signing identity for each unit, or two
\* migration calls on one keyring.
InitKeyringCalls == InitStakeMnemonic \/ InitMigration

NextKeyringCalls ==
    \/ /\ msess = <<>>
       /\ NextStakeMnemonic
    \/ /\ msess # <<>>
       /\ NextMigration

SpecKeyringCalls == InitKeyringCalls /\ [][NextKeyringCalls]_vars

Next ==
    \/ StartBatch
    \/ TxReturns
    \/ ImportReturns
    \/ BackoffElapses
    \/ GapElapses

Spec == Init /\ [][Next]_vars

\* every awaited CLI call returns or times out (execAsync has a timeout) and every
\* delay() timer fires: a pending await is eventually resumed
SpecLive == Spec /\ WF_vars(Next)

TypeOK ==
    /\ pc \in {"idle", "tx", "import", "backoff", "gap", "returned", "threw"}
    /\ cur \in 0..numUnits
    /\ attempt \in 0..maxRetries
    /\ Len(results.transactions) <= numUnits

\* --------------------------------------------------------------- properties
Terminal == {"succeeded", "failed"}
NonRetryableKinds == {"generic", "timeout", "spawn"}

InvocationsIn(log, u) == Cardinality({i \in 1..Len(log) : log[i].unit = u})
Invocations(u) == InvocationsIn(txLog, u)

EntriesIn(res, u) ==
    Cardinality({i \in 1..Len(res.transactions) : res.transactions[i].unit = u})

\* index in txLog of the last invocation issued for unit u (0 if none)
LastInvocation(u) ==
    IF Invocations(u) = 0 THEN 0
    ELSE CHOOSE i \in 1..Len(txLog) :
            /\ txLog[i].unit = u
            /\ \A j \in 1..Len(txLog) : txLog[j].unit = u => j <= i

\* No delay() follows invocation i: the next invocation, or the present state if
\* there is none, is at the same clock value and no delay is pending.
NoDelayAfter(i) ==
    IF i < Len(txLog)
    THEN txLog[i + 1].at = txLog[i].at
    ELSE clock = txLog[i].at /\ pc \notin {"backoff", "gap"}

\* The failure of unit u has reached the caller: a failed report entry with an
\* error text for a batch, a thrown error for createNodeAndStake.
Surfaced(u) ==
    /\ status[u] = "failed"
    /\ IF op = "node"
       THEN pc = "threw" /\ topError # {}
       ELSE \E k \in 1..Len(results.transactions) :
               /\ results.transactions[k].unit = u
               /\ ~results.transactions[k].success
               /\ results.transactions[k].error # {}

\* C1: a transaction failure that is not a sequence mismatch (generic CLI error,
\* timeout, binary that cannot be spawned) is never retried: it is the last
\* invocation of its unit (the only one when it is the first attempt), no delay
\* follows it, and the failure is surfaced.
C1_NonSequenceFailureNotRetried ==
    \A i \in 1..Len(txLog) :
        txLog[i].kind \in NonRetryableKinds =>
            /\ \A j \in 1..Len(txLog) : txLog[j].unit = txLog[i].unit => j <= i
            /\ txLog[i].attempt = 1 => Invocations(txLog[i].unit) = 1
            /\ NoDelayAfter(i)
            /\ Surfaced(txLog[i].unit)

C1_Witness ==
    /\ pc \in {"returned", "threw"}
    /\ \E i \in 1..Len(txLog) :
          /\ txLog[i].kind = "timeout"
          /\ txLog[i].attempt = 1
          /\ Invocations(txLog[i].unit) = 1
          /\ status[txLog[i].unit] = "failed"

\* C2: the transaction of a unit is invoked at most 3 times whatever the outcomes
\* are, and the attempt counter starts again at 1 for every unit.
C2_AtMostMaxAttempts ==
    /\ \A u \in 1..numUnits : Invocations(u) <= 3
    /\ \A i \in 1..Len(txLog) :
          /\ txLog[i].attempt \in 1..3
          /\ (i = 1 \/ txLog[i - 1].unit # txLog[i].unit) => txLog[i].attempt = 1

C2_Witness ==
    /\ pc = "returned"
    /\ \E u \in 1..numUnits :
          /\ Invocations(u) = 3
          /\ Invocations(u + 1) >= 1

\* C3: attempt N+1 of a unit is issued only after attempt N of the same unit failed
\* with a sequence mismatch and exactly 30*N seconds of delay went by since; while
\* the backoff is pending it is 30*N seconds long.
C3_LinearBackoff ==
    /\ \A i \in 1..Len(txLog) :
          txLog[i].attempt > 1 =>
              /\ i > 1
              /\ txLog[i - 1].unit = txLog[i].unit
              /\ txLog[i - 1].attempt = txLog[i].attempt - 1
              /\ txLog[i - 1].kind = "seq"
              /\ txLog[i].at - txLog[i - 1].at = 30 * txLog[i - 1].attempt
    /\ \A i \in 2..Len(txLog) :
          txLog[i - 1].unit = txLog[i].unit => txLog[i].attempt = txLog[i - 1].attempt + 1
    /\ pc = "backoff" =>
          /\ txLog[Len(txLog)].kind = "seq"
          /\ txLog[Len(txLog)].attempt = attempt
          /\ sleepFor = 30 * attempt

C3_Witness ==
    \E i \in 1..Len(txLog) :
        /\ txLog[i].attempt = 3
        /\ txLog[i].at - txLog[i - 1].at = 60
        /\ txLog[i - 1].at - txLog[i - 2].at = 30

AllSequenceMismatch(u) ==
    /\ Invocations(u) = 3
    /\ \A i \in 1..Len(txLog) : txLog[i].unit = u => txLog[i].kind = "seq"

\* C4: when all 3 attempts of a unit fail with a sequence mismatch,
\* executeStakeTransactionWithRetry throws an error whose message holds the message
\* of the last underlying failure, and no delay follows the last failed attempt.
C4_RetriesExhausted ==
    op \in RetryFunctionOps =>
        \A u \in 1..numUnits :
            AllSequenceMismatch(u) =>
                /\ NoDelayAfter(LastInvocation(u))
                /\ \E k \in 1..Len(results.transactions) :
                      /\ results.transactions[k].unit = u
                      /\ ~results.transactions[k].success
                      /\ ExecError("seq", seqText).message
                            \subseteq results.transactions[k].error

C4_Witness ==
    /\ op \in RetryFunctionOps
    /\ pc = "returned"
    /\ \E u \in 1..numUnits : AllSequenceMismatch(u) /\ status[u] = "failed"

\* C5: every unit reported as succeeded carries attempts = number of invocations
\* made for it (n sequence mismatches, then success: n+1), in every batch path.
C5_AttemptsReported ==
    \A k \in 1..Len(results.transactions) :
        results.transactions[k].success =>
            /\ "attempts" \in DOMAIN results.transactions[k]
            /\ results.transactions[k].attempts = Invocations(results.transactions[k].unit)

UnitOk(u) == \E i \in 1..Len(txLog) : txLog[i].unit = u /\ txLog[i].kind = "ok"

\* The text of the failure of unit u that the report has to show.
FailureDetail(u) ==
    IF Invocations(u) = 0
    THEN WalletImportError.message
    ELSE LET e == ExecError(txLog[LastInvocation(u)].kind, seqText) IN
         IF op \in RetryFunctionOps THEN e.message
         ELSE IF e.code = "ENOENT" THEN {"Pocketd command not found"}
         ELSE IF e.stderr # {} THEN e.stderr
         ELSE e.message

\* C6: a batch whose loop was entered never throws; it returns a report with one
\* entry per unit, in unit order, where exactly the units whose transaction did not
\* succeed are marked failed, each with the text of its failure.
C6_BatchReportsEveryUnit ==
    op \in BatchOps =>
        /\ pc = "threw" => cur = 0 /\ txLog = <<>>
        /\ pc = "returned" =>
              /\ Len(results.transactions) = numUnits
              /\ \A u \in 1..numUnits :
                    LET e == results.transactions[u] IN
                    /\ e.unit = u
                    /\ e.success <=> UnitOk(u)
                    /\ ~e.success => FailureDetail(u) \subseteq e.error

C6_Witness ==
    /\ op \in BatchOps
    /\ pc = "returned"
    /\ numUnits = 3
    /\ ~results.transactions[1].success
    /\ results.transactions[2].success
    /\ ~results.transactions[3].success

\* C7: the first transaction attempt of every unit but the first comes at least 30
\* seconds after the last attempt of the unit before it, whether that unit
\* succeeded or failed, so a returned batch of K units has slept (K-1)*30 s or more.
C7_DelayBetweenUnits ==
    /\ \A i \in 2..Len(txLog) :
          txLog[i].unit # txLog[i - 1].unit => txLog[i].at - txLog[i - 1].at >= 30
    /\ (op \in BatchOps /\ pc = "returned" /\ numUnits >= 1) =>
          clock >= (numUnits - 1) * 30

Allowed(from, to) ==
    \/ from = to
    \/ from = "pending" /\ to \in {"attempting", "failed"}
    \/ from = "attempting" /\ to \in {"retry-wait", "succeeded", "failed"}
    \/ from = "retry-wait" /\ to = "attempting"

UnitStep(u) ==
    /\ Allowed(status[u], status'[u])
    /\ status[u] \in Terminal =>
          /\ InvocationsIn(txLog', u) = InvocationsIn(txLog, u)
          /\ EntriesIn(results', u) = EntriesIn(results, u)

UnitState(u) ==
    /\ status[u] = "attempting" <=> (pc = "tx" /\ cur = u)
    /\ status[u] = "retry-wait" <=> (pc = "backoff" /\ cur = u)
    /\ op \in BatchOps => (status[u] \in Terminal <=> EntriesIn(results, u) = 1)
    /\ op \in BatchOps => EntriesIn(results, u) <= 1
    /\ status[u] = "succeeded" <=> UnitOk(u)
    /\ pc = "returned" => status[u] \in Terminal

\* C8: every unit moves pending -> (attempting -> retry-wait)* -> succeeded | failed;
\* it becomes terminal once (one report entry), stays so, gets no further
\* transaction attempt afterwards, and is terminal when the run returns.
C8_UnitStateMachine ==
    /\ [](\A u \in 1..numUnits : UnitState(u))
    /\ [][\A u \in 1..numUnits : UnitStep(u)]_vars

C8_Witness ==
    /\ pc = "returned"
    /\ numUnits >= 2
    /\ status[1] = "failed"
    /\ Invocations(1) = 2
    /\ status[2] = "succeeded"
    /\ Invocations(2) = 3

PreconditionFails ==
    /\ op \in {"session", "imported"}
    /\ \/ sessionDir \in {"missing", "noStakeDir"}
       \/ numUnits = 0
       \/ ownerImport = "fail"

\* C9: when the session directory (or its stake_files directory) is missing, the
\* session has no .yaml stake file or the owner key import fails, the batch call ends with one thrown error and no
\* stake transaction was invoked; a batch that throws has invoked none.
C9_PreconditionFailureAborts ==
    /\ (PreconditionFails /\ pc # "idle") =>
          /\ pc = "threw"
          /\ topError # {}
          /\ txLog = <<>>
          /\ results.transactions = <<>>
          /\ \A u \in 1..numUnits : status[u] = "pending"
    /\ (op \in BatchOps /\ pc = "threw") => txLog = <<>> /\ PreconditionFails

C9_Witness ==
    /\ pc = "threw"
    /\ op = "imported"
    /\ sessionDir = "ok"
    /\ numUnits > 0
    /\ ownerImport = "fail"
    /\ "Failed to import key" \in topError

\* C10: whenever an import operation (hex, mnemonic, migration) is asked for a name
\* that is present in the target keyring, with a well-formed credential and no CLI
\* call failing for an unrelated reason, the old identity is deleted before the
\* import, the name holds the new identity afterwards, and the caller gets no
\* already-exists error.
C10_CollisionResolved ==
    (kpc = "done" /\ kreq.had /\ kreq.valid /\ ~kst.fault) =>
        /\ kst.deleted
        /\ keyring[kreq.backend][kreq.name] = kreq.cred.id
        /\ kresult.status = "ok"
        /\ "already exists" \notin kresult.error

\* C11: once importKeyToKeyring has returned or thrown, the temp file it wrote the
\* private key to is gone, whatever the outcome of the import command was.
C11_TempKeyFileRemoved ==
    (kpc = "done" /\ kreq.fn = "hex") =>
        TempKeyFile(kreq.call, kreq.cred) \notin ktemp

HexKeyIds == {k.id : k \in HexKeys}
MnemonicIds == {m.id : m \in Mnemonics}

\* C12: no process spawned by an import of a caller-supplied hex key has the key
\* on its command line.
C12_NoKeyInArgv ==
    \A s \in spawned : s.argv \cap HexKeyIds = {}

\* C13: no process spawned by importWalletWithMnemonic has the phrase on its command
\* line (or in a file named there), and an import of a phrase of 12 to 24 words that
\* reached the recovery command gave it the phrase on standard input.
C13_MnemonicOnlyOnStdin ==
    /\ \A s \in spawned :
          /\ s.argv \cap MnemonicIds = {}
          /\ s.file \cap MnemonicIds = {}
          /\ s.stdin # {} => s.cmd = "keys add --recover"
    /\ (kreq.fn = "mnemonic" /\ kpc \in {"mn-add", "done"} /\ kresult.status # "error") =>
          /\ kreq.cred.words \in 12..24
          /\ \E s \in spawned : s.cmd = "keys add --recover" /\ s.stdin = {kreq.cred.id}

C13_Witness ==
    /\ kpc = "done"
    /\ kreq.fn = "mnemonic"
    /\ kreq.cred.words \in 12..24
    /\ kresult.status = "ok"
    /\ keyring[kresult.backend][kreq.name] = kreq.cred.id
    /\ Command("keys add --recover", {}, {kreq.cred.id}, {}) \in spawned

\* what the specification takes for a well-formed raw key: hexadecimal of length 64
\* or 128 once an optional 0x is stripped
WellFormedKey(c) == c.hex /\ c.digits \in {64, 128}

InvalidFormatError(error) ==
    \/ "Invalid private key format" \in error
    \/ "Private key must be in hex format" \in error

\* C14: importKeyToKeyring issues the import command for every key that is hexadecimal
\* of length 64 or 128 without its 0x, and refuses every other key with an
\* invalid-format error before it writes a temp file or spawns a process.
C14_KeyFormatChecked ==
    (kreq.fn = "hex" /\ kpc # "idle") =>
        IF WellFormedKey(kreq.cred)
        THEN KeysImportCommand(kreq.cred) \in spawned
        ELSE /\ kpc = "done"
             /\ kresult.status = "error"
             /\ InvalidFormatError(kresult.error)
             /\ spawned = {}
             /\ ktemp = kreq.temp

\* C15: a key importKeyToKeyring accepts has at least 64 hexadecimal characters after
\* its optional 0x prefix (0x followed by 62 hex characters is refused).
C15_AtLeast64HexDigits ==
    (kreq.fn = "hex" /\ kpc # "idle" /\ KeysImportCommand(kreq.cred) \in spawned) =>
        kreq.cred.hex /\ kreq.cred.digits >= 64

KeyringCommands == {"keys list", "keys delete", "keys add --recover"}

\* the units whose import has ended
ImportEnded(u) == u < cur \/ (u = cur /\ pc \in {"returned", "threw"})

\* For a mnemonic of fewer than 12 or more than 24 words: no import call lists,
\* deletes or adds a keyring identity, no transaction is attempted, every unit makes
\* one import call and is reported failed once, and the import error and the
\* failure reported for the unit satisfy Expected.
InvalidMnemonicState(Expected(_, _)) ==
    mnemonic.words \notin 12..24 =>
        /\ \A s \in spawned : s.cmd \notin KeyringCommands
        /\ txLog = <<>>
        /\ kcalls <= cur
        /\ kpc = "done" => kresult.status = "error" /\ Expected(kresult.error, kst.fault)
        /\ \A u \in 1..numUnits :
              /\ status[u] \in {"pending", "failed"}
              /\ (ImportEnded(u) /\ kcalls >= u) =>
                    /\ status[u] = "failed"
                    /\ IF op = "node"
                       THEN \E f \in BOOLEAN : Expected(topError, f)
                       ELSE /\ EntriesIn(results, u) = 1
                            /\ ~results.transactions[u].success
                            /\ \E f \in BOOLEAN :
                                  Expected(results.transactions[u].error, f)

InvalidMnemonicStep == mnemonic.words \notin 12..24 => keyring' = keyring

InvalidMnemonicError(error, probeFailed) ==
    \/ "Invalid mnemonic length" \in error
    \/ "Mnemonic is required and must be a string" \in error

InvalidOrProbeError(error, probeFailed) ==
    IF probeFailed THEN "Validation failed" \in error
    ELSE InvalidMnemonicError(error, probeFailed)

\* C16 (as stated): for a mnemonic whose word count is outside [12,24] the import
\* fails with an invalid-mnemonic error, lists, deletes and adds nothing in the
\* keyring, and the unit is marked failed after its single import attempt, without a
\* transaction attempt.
C16_InvalidMnemonicFailsUnit ==
    /\ [](InvalidMnemonicState(InvalidMnemonicError))
    /\ [][InvalidMnemonicStep]_vars

\* C16 (amended): the same, where the error is the invalid-mnemonic error when the
\* `pocketd version` probe that precedes the word count check succeeded and the
\* validation-failed error of the probe otherwise.
C16_InvalidMnemonicOrProbeFailsUnit ==
    /\ [](InvalidMnemonicState(InvalidOrProbeError))
    /\ [][InvalidMnemonicStep]_vars

C16_Witness ==
    /\ op = "mnemonic"
    /\ pc = "returned"
    /\ numUnits = 2
    /\ mnemonic.words = 25
    /\ kcalls = 2
    /\ status[1] = "failed" /\ status[2] = "failed"
    /\ "Invalid mnemonic length" \in results.transactions[1].error
    /\ "Validation failed" \in results.transactions[2].error

\* C18: in executeStakeTransactions every transaction is signed by the caller's
\* ownerKeyName when one is given, else by the owner recorded in the session, else by
\* a fallback identity; --from is never null or undefined.
C18_SignerDecisionTable ==
    op = "session" =>
        \A i \in 1..Len(txLog) :
            /\ txLog[i].from # Null
            /\ signing.ownerKeyName # Null => txLog[i].from = signing.ownerKeyName
            /\ (signing.ownerKeyName = Null /\ signing.ownerAddress # Null) =>
                  txLog[i].from = signing.ownerAddress

\* the sessions that were called
Called == { s \in DOMAIN msess : msess[s].pc # "idle" }

\* the operation ended without a claim and said that no signer is available
NoSignerReported(s) ==
    /\ msess[s].from = Null
    /\ msess[s].pc = "done" =>
          /\ msess[s].result \in {"failed", "threw"}
          /\ msess[s].error = NoSigningAccountError

\* C17: in executeMigration and executeArmoredMigration, when alice could not be
\* verified or created and the caller gave no signing credential, no claim is issued
\* and the failure is reported; a claim signed by alice is only ever issued while
\* alice is in the keyring.
C17_NoClaimWithoutSigner ==
    \A s \in Called :
        /\ (msess[s].aliceExists = "no" /\ msess[s].cred.kind = "none") =>
              NoSignerReported(s)
        /\ msess[s].from = "alice" => msess[s].fromPresent

\* the other session has not been called: s runs alone
Alone(s) == \A t \in DOMAIN msess \ {s} : msess[t].pc = "idle"

\* s gave a credential, none of its own pocketd calls failed, and it has issued its
\* claim
ClaimIssuedCleanly(s) ==
    /\ msess[s].cred.kind # "none"
    /\ ~msess[s].fault
    /\ msess[s].from # Null

\* C19: of two sessions with different ids and signers interleaved on the same
\* keyring, each one that imported its signer finds it in the keyring when it issues
\* its claim and signs with it, as it does when it runs alone.
C19_SessionsDoNotInterfere ==
    \A s \in Called :
        ClaimIssuedCleanly(s) =>
            /\ msess[s].from = ShannonKeyName(s)
            /\ msess[s].fromPresent

\* the log parts that carry key material
KeyMaterialParts ==
    {"whole", "first 50 characters", "first 20 characters", "first 10 characters"}

\* C20: nothing an operation logs contains a private key or a mnemonic, whole or as
\* a prefix that includes key material.
C20_NoSecretLogged == \A l \in logged : l.part \notin KeyMaterialParts

\* the sessions whose operation has returned or thrown
Finished == { s \in DOMAIN msess : msess[s].pc = "done" }

\* C21: when a migration operation has finished, successfully or not, none of its
\* files with key material is left on disk: the input file with the Morse keys, the
\* mnemonic temp file and the armored-key temp file are gone.
C21_NoKeyFileLeft ==
    \A s \in Finished :
        /\ ~msess[s].inputFile
        /\ ~msess[s].tempFile
        /\ ~msess[s].armoredKeyFile

\* C26: the claim command is executed at most once per executeMigration /
\* executeArmoredMigration call, whatever way it fails.
C26_ClaimAtMostOnce == \A s \in DOMAIN msess : msess[s].claims <= 1

\* a claim failed with a recognised chain error and the operation has ended, and
\* another one failed on a timeout or another command failure
C26_Witness ==
    /\ Finished = DOMAIN msess
    /\ \E s \in Finished :
          /\ msess[s].claims = 1
          /\ msess[s].result = "failed"
          /\ msess[s].error = {"insufficient funds"}
    /\ \E s \in Finished :
          /\ msess[s].claims = 1
          /\ msess[s].result = "failed"
          /\ msess[s].error \in {MigrationCommandError, {"transaction failed"}}

\* C29: in a single executeMigration call with no other actor on the keyring, a
\* claim issued with --from=alice finds alice in the keyring.
C29_AlicePresentWhenSigning ==
    \A s \in Called :
        (msess[s].flow = "claim-accounts" /\ msess[s].from = "alice") =>
            msess[s].fromPresent

\* C30: runMigrationCommand signs with shannon-<id> exactly when a credential was
\* supplied, its import succeeded and the key was listed afterwards, and with alice
\* otherwise.
C30_ShannonSignerDecisionTable ==
    \A s \in Called :
        (msess[s].flow \in {"claim-accounts", ServiceFlow} /\ msess[s].from # Null) =>
            /\ msess[s].from = ShannonKeyName(s) <=>
                  /\ msess[s].cred.kind # "none"
                  /\ msess[s].imported
                  /\ msess[s].listed
            /\ msess[s].from # ShannonKeyName(s) => msess[s].from = "alice"


\* everything a session directory held is still there, unchanged
ArtifactsKept(d, e) ==
    d.exists =>
        /\ e.exists
        /\ (d.walletsDir => e.walletsDir)
        /\ (d.stakeDir => e.stakeDir)
        /\ (d.hasInfo => e.hasInfo /\ e.info = d.info)
        /\ d.wallets \subseteq e.wallets
        /\ d.stakeFiles \subseteq e.stakeFiles
        /\ (d.mnemonics => e.mnemonics)

\* C22: no step deletes an artifact of a stake session (session_info.json, stake
\* files, wallet homes, wallet_mnemonics.json), and a temp entry disappears only in
\* the startup cleanup and only when its age exceeds tempFileRetention: younger
\* entries, and entries exactly as old as the retention period, stay.
C22_CleanupRemovesOnlyExpiredTemp ==
    [][ /\ \A sid \in SessionIds : ArtifactsKept(sessions[sid], sessions'[sid])
        /\ \A e \in temp \ temp' :
              /\ server.phase = "cleanup"
              /\ e.age > tempFileRetention ]_vars

\* the cleanup is over: it removed an expired entry, kept one that is not expired,
\* and the session of an earlier run is there with its mnemonics file
C22_Witness ==
    /\ server.phase = "serving"
    /\ \E e \in server.removed : e.age > tempFileRetention
    /\ \E e \in temp : e.age <= tempFileRetention
    /\ sessions["sA"].exists /\ sessions["sA"].mnemonics


\* C23: the text of session_info.json parses back to the sessionInfo executeStake
\* wrote, every owner address and descriptor a batch operation or the download
\* fallback read from it has the owner address, node count and createdAt written at
\* creation, and no step changes the text of an existing descriptor.
C23_DescriptorRoundTrips ==
    /\ [](/\ \A sid \in SessionIds :
               sessions[sid].hasInfo => readJson(sessions[sid].info) = sessions[sid].created
          /\ reader.owner # Null =>
               reader.owner = sessions[reader.sid].created.ownerAddress
          /\ reader.info # NoInfo =>
               /\ reader.info.ownerAddress = sessions[reader.sid].created.ownerAddress
               /\ reader.info.numberOfNodes = sessions[reader.sid].created.numberOfNodes
               /\ reader.info.createdAt = sessions[reader.sid].created.createdAt)
    /\ [][\A sid \in SessionIds :
             sessions[sid].hasInfo =>
                sessions'[sid].hasInfo /\ sessions'[sid].info = sessions[sid].info]_vars

\* a batch read the descriptor of the session created in this run
C23_Witness ==
    /\ reader.op \in {"session", "imported"}
    /\ reader.sid = "sB"
    /\ reader.owner = "pokt1ownerB"
    /\ reader.info.numberOfNodes = 2
    /\ reader.info.createdAt \in Timestamps
    /\ creating.pc = "returned"

\* the node number a stake file was written for
NodeOf(yamlFile) == CHOOSE i \in 1..(MaxNodes + 1) : stakeFileName(walletName(i)) = yamlFile

\* C27: every unit a batch processed is a unit executeStake created: the key name
\* derived from its stake file name is the wallet name node_i, and the wallet home
\* and the stake file path the batch computed are the ones written at creation.
C27_LayoutRoundTrips ==
    \A k \in 1..Len(reader.txs) :
       \E i \in sessions[reader.sid].stakeFiles :
          /\ reader.txs[k].yamlFile = Unit(reader.sid, i).fileName
          /\ reader.txs[k].operatorKeyName = Unit(reader.sid, i).walletName
          /\ reader.txs[k].operatorHomeDir = Unit(reader.sid, i).homePath
          /\ reader.txs[k].stakeFilePath = Unit(reader.sid, i).stakeFile
          /\ i \in sessions[reader.sid].wallets

\* a batch went through two units of the session created in this run
C27_Witness ==
    /\ reader.sid = "sB"
    /\ reader.result = "ok"
    /\ Len(reader.txs) = 2

\* C28: a batch attempts the units of a session in index order, and its report
\* lists them in that order.
C28_UnitsInIndexOrder ==
    \A j \in 1..Len(reader.txs), k \in 1..Len(reader.txs) :
       j < k => NodeOf(reader.txs[j].yamlFile) < NodeOf(reader.txs[k].yamlFile)

\* a read operation answered in this step
ReadAnswered == reader.pc \in {"idle", "done"} /\ reader' # reader

\* C25 as stated: every read of the units of an existing session without stake
\* files gives an empty result, a read of a missing session gives not-found.
C25_EmptySessionReadsEmpty ==
    [][ (ReadAnswered /\ reader'.op \in {"status", "session", "imported"}
                      /\ reader'.result # "invalid-network") =>
           LET d == sessions[reader'.sid] IN
           /\ ~d.exists => reader'.result = "not-found"
           /\ (d.exists /\ d.stakeFiles = {}) =>
                  reader'.result = "ok" /\ reader'.count = 0 ]_vars

\* C25, amended: getStakeSessionStatus of an existing session without stake files
\* succeeds with zero stake files, stake_files/ present or not; a batch on such a
\* session fails before any unit is processed; a read of a missing session gives
\* not-found.
C25_EmptySessionStatusZeroBatchFails ==
    [][ (ReadAnswered /\ reader'.op \in {"status", "session", "imported"}
                      /\ reader'.result # "invalid-network") =>
           LET d == sessions[reader'.sid] IN
           /\ ~d.exists => reader'.result = "not-found"
           /\ (d.exists /\ d.stakeFiles = {} /\ reader'.op = "status") =>
                  reader'.result = "ok" /\ reader'.count = 0
           /\ (d.exists /\ d.stakeFiles = {} /\ reader'.op # "status") =>
                  /\ reader'.result \in {"no-stake-files", "error"}
                  /\ reader'.pc = "done"
                  /\ reader'.txs = <<>> ]_vars

\* the status of a session that has no stake_files/ yet was read
C25_Witness ==
    /\ reader.op = "status"
    /\ reader.result = "ok"
    /\ reader.count = 0
    /\ sessions[reader.sid].exists
    /\ ~sessions[reader.sid].stakeDir

\* C24: every stake-supplier invocation carries a network of the allow-list.
C24_NetworkOnAllowList ==
    \A k \in 1..Len(reader.txs) : reader.txs[k].network \in StakeNetworks

\* the entries of a report with the given success flag
EntriesWith(res, flag) ==
    Cardinality({i \in 1..Len(res.transactions) : res.transactions[i].success = flag})

\* C36: at every await of a batch the counters of the report agree with its
\* entries: successful + failed is the number of entries, successful counts the
\* entries with success = true and failed those with success = false; a batch that
\* returned has successful + failed = totalFiles.
C36_CountersAgreeWithEntries ==
    /\ results.successful + results.failed = Len(results.transactions)
    /\ results.successful = EntriesWith(results, TRUE)
    /\ results.failed = EntriesWith(results, FALSE)
    /\ (op \in BatchOps /\ pc = "returned") =>
          results.successful + results.failed = results.totalFiles

\* a batch is between two units with a failed and a successful entry in its report
C36_Witness ==
    /\ op \in BatchOps
    /\ pc \in {"tx", "import"}
    /\ results.failed >= 1
    /\ results.successful >= 1

\* the delays of each kind awaited so far, a pending one included
RetryDelays == delays.retry + (IF pc = "backoff" THEN 1 ELSE 0)
GapDelays == delays.gap + (IF pc = "gap" THEN 1 ELSE 0)

\* C40: every run ends, and a batch whose preconditions hold ends by returning its
\* report; up to then a batch of K units has made at most K * maxRetries
\* stake-supplier invocations, awaited at most K * (maxRetries - 1) retry delays
\* and at most K - 1 delays between units.
C40_BatchTerminatesWithinBounds ==
    /\ <>(pc \in {"returned", "threw"})
    /\ (op \in BatchOps /\ ~PreconditionFails) => <>(pc = "returned")
    /\ [](op \in BatchOps =>
            /\ Len(txLog) <= numUnits * maxRetries
            /\ RetryDelays <= numUnits * (maxRetries - 1)
            /\ GapDelays <= (IF numUnits = 0 THEN 0 ELSE numUnits - 1))

\* a batch returned after the largest number of retry delays and of delays between
\* units a batch of two units can have
C40_Witness ==
    /\ op \in BatchOps
    /\ pc = "returned"
    /\ numUnits = 2
    /\ delays.retry = 2 * (maxRetries - 1)
    /\ delays.gap = 1

\* the executeMigration calls that ended with a failed claim-accounts run:
\* runMigrationCommand returned an object with success = false
CommandFailed ==
    { s \in Finished : /\ msess[s].flow \in {"claim-accounts", ServiceFlow}
                       /\ msess[s].result = "failed" }

\* C34: when runMigrationCommand's result has success = false, executeMigration
\* does not end with success = true at its top level, and the input and temp files
\* of the session are removed.
C34_FailedCommandNotReportedAsSuccess ==
    \A s \in CommandFailed :
        /\ ~msess[s].success
        /\ ~msess[s].inputFile
        /\ ~msess[s].tempFile

ChainErrorTypes ==
    {"already_claimed", "account_not_found", "insufficient_funds", "no_claimable_accounts"}

\* C35: the errorType runMigrationCommand returns for a failed claim command is the
\* class chosen from the command's stderr: a chain error keeps its class, and a
\* failure of the generic class is not returned as a chain error.
C35_ErrorTypeIsStderrClass ==
    \A s \in Finished :
        (msess[s].flow = "claim-accounts" /\ msess[s].result = "failed"
                                         /\ msess[s].claims = 1) =>
            IF msess[s].stderrClass \in ChainErrorTypes
            THEN msess[s].errorType = msess[s].stderrClass
            ELSE msess[s].errorType \notin ChainErrorTypes

\* the private key a credential holds: a run of 64 to 128 hexadecimal digits, bare
\* or in the priv field of a wallet JSON
IsPrivateKey(e) == Len(e) = 1 /\ e[1].t = "hex" /\ e[1].n >= 64
HoldsKey(credential, e) ==
    \/ \E i \in 1..Len(credential) : credential[i] = e[1]
    \/ \E i \in 1..Len(credential) :
          \E j \in 1..Len(credential[i].priv) : credential[i].priv[j] = e[1]

\* C39: the input file written for an accepted credential list has one entry per
\* credential, in the order supplied, and every entry is the 0x-stripped
\* hexadecimal private key of its credential.
C39_InputFileHoldsCleanedKeys ==
    minput.written =>
        /\ Len(minput.file) = Len(minput.keys)
        /\ \A i \in 1..Len(minput.file) :
              /\ IsPrivateKey(minput.file[i])
              /\ HoldsKey(minput.keys[i], minput.file[i])

\* C31: no decision on the keyring rests on what an earlier call saw.
\* Migration: a call's first step is the listing of the keyring; `keys add alice`
\* is issued only when that listing returns, and then exactly when alice is not in
\* the keyring at that moment (or the listing failed); a listing that succeeds on
\* a keyring holding alice creates nothing.
\* Mnemonic batch: a stake transaction of unit u is issued only after the u-th
\* import of the batch succeeded; every import lists the keyring before it adds
\* the identity, and deletes first exactly when the listing shows the name.
MigrationCallLists(s) ==
    /\ (msess[s].pc = "idle" /\ msess'[s].pc # "idle") =>
          /\ msess'[s].pc = "alice-list"
          /\ KeysListCommand \in spawned'
    /\ (msess[s].pc # "alice-add" /\ msess'[s].pc = "alice-add") =>
          /\ msess[s].pc = "alice-list"
          /\ "alice" \notin mring \/ msess'[s].fault
    /\ (msess[s].pc = "alice-list" /\ msess'[s].pc # "alice-list"
          /\ "alice" \in mring /\ ~msess'[s].fault) =>
          /\ msess'[s].pc # "alice-add"
          /\ msess'[s].aliceExists = "yes"
    /\ (msess[s].aliceExists # "yes" /\ msess'[s].aliceExists = "yes") =>
          /\ msess[s].pc \in {"alice-list", "alice-add", "alice-verify"}
          /\ msess[s].pc = "alice-list" => "alice" \in mring

UnitReimports ==
    /\ Len(txLog') > Len(txLog) =>
          /\ kcalls = txLog'[Len(txLog')].unit
          /\ kpc = "done"
          /\ kresult.status = "ok"
          /\ Present(keyring, kresult.backend, signingKeyName)
    /\ kcalls' # kcalls => kpc' = "mn-version"
    /\ (kpc # "mn-add" /\ kpc' = "mn-add") => kpc \in {"mn-list", "mn-delete"}
    /\ (kpc = "mn-list" /\ kpc' = "mn-delete") => Present(keyring, kst.backend, kreq.name)
    /\ (kpc = "mn-list" /\ kpc' = "mn-add") =>
          ~Present(keyring, kst.backend, kreq.name) \/ kst'.fault

C31_KeyringStateReverified ==
    [][/\ \A s \in DOMAIN msess : MigrationCallLists(s)
       /\ msess = <<>> => UnitReimports]_vars

\* the second migration call lists a keyring from which the first call's cleaning
\* removed the alice it had seen, and goes on to create alice; or the second unit
\* of a batch finds the identity its first unit imported and deletes it
C31_Witness ==
    \/ \E s, t \in DOMAIN msess :
          /\ s # t
          /\ msess[t].aliceExists = "yes"
          /\ msess[s].pc = "alice-add"
          /\ ~msess[s].fault
    \/ /\ msess = <<>>
       /\ cur = 2
       /\ kcalls = 2
       /\ kpc = "mn-delete"
       /\ Len(txLog) >= 1

\* C32: while a stake transaction of executeStakeWithMnemonic or createNodeAndStake
\* is being executed, the backend its command names is the backend in which the
\* unit's import created the signing identity.
C32_TransactionUsesImportBackend ==
    (op \in {"mnemonic", "node"} /\ pc = "tx") =>
        /\ kresult.status = "ok"
        /\ kresult.backend = stakeCommandBackend

\* C33: what a call's command finds under the call's temp file name is what that
\* call wrote: never another call's content, never a file already removed.
C33_CommandReadsOwnTempFile ==
    \A c \in Callers :
        tcalls[c].read # NotRead => tcalls[c].read = contentOf(c)

\* C37: the executor is entered only after `pocketd version` was executed and
\* answered; until then, and for good when the probe failed, the operation has
\* created no session, made no keyring call and issued no transaction, and a
\* failed probe makes the operation throw the binary-unavailable error.
NothingDone ==
    /\ txLog = <<>>
    /\ cur = 0
    /\ results = EmptyResults
    /\ kcalls = 0
    /\ keyring = [b \in Backends |-> [n \in Names |-> Absent]]
    /\ spawned \subseteq {VersionCommand}
    /\ creating = NoCreation
    /\ \A sid \in NewSessionIds : ~sessions[sid].exists

ProbeFailed == pc = "threw" /\ topError = PocketdUnavailableError

C37_ProbeComesFirst ==
    /\ pc \in {"idle", "probe"} \/ ProbeFailed => NothingDone
    /\ pc \notin {"idle", "probe"} /\ ~ProbeFailed => VersionCommand \in spawned
    /\ pc = "probe" => VersionCommand \in spawned

C37_Witness == ProbeFailed /\ op \in Ops /\ numUnits > 0 /\ sessionDir = "ok"

\* C38: a session executeStake returned holds node_1..node_N, their stake files, a
\* descriptor with numberOfNodes = N and N stored mnemonic entries, and a batch
\* called on it afterwards takes N files; a session whose creation threw is not
\* reported by getStakeSessionStatus as completed with N wallets created.
CreatedNodes == creating.info.numberOfNodes

SessionHoldsAllUnits ==
    creating.pc = "returned" =>
        LET d == sessions[creating.sid] IN
        /\ d.wallets = 1..CreatedNodes
        /\ d.stakeFiles = 1..CreatedNodes
        /\ d.hasInfo /\ readJson(d.info).numberOfNodes = CreatedNodes
        /\ d.mnemonics /\ d.entries = d.wallets

LaterBatchTakesAllFiles ==
    (/\ creating.pc = "returned"
     /\ reader' # reader
     /\ reader.pc \in {"idle", "done"}
     /\ reader'.sid = creating.sid
     /\ reader'.pc = "units") => Len(reader'.files) = CreatedNodes

FailedCreationNotCompleted ==
    (/\ creating.pc = "threw"
     /\ reader.op = "status"
     /\ reader.sid = creating.sid
     /\ reader.result = "ok") =>
        ~(reader.status = "completed" /\ reader.walletCount = CreatedNodes)

C38_SessionHoldsExactlyItsUnits ==
    [][/\ SessionHoldsAllUnits'
       /\ LaterBatchTakesAllFiles
       /\ FailedCreationNotCompleted']_vars

====
